---- MODULE Spec2Model ----
(***************************************************************************)
(* A model of the per-call relay of DREW-AGENT-LLM:                        *)
(*   - src/app/server.py: websocket_handler (accept, heartbeat, receive    *)
(*     loop, handle_message, handle_response_required, teardown);          *)
(*   - src/app/src/llm.py and src/app/llm.py: LlmClient.draft_response     *)
(*     (the two tool phases differ, see impl) and LlmClient.cleanup.       *)
(*                                                                         *)
(* The asyncio event loop is modelled by its FIFO ready queue: the task at *)
(* the head of `ready` runs up to its next suspension point.  A task made  *)
(* runnable by another task (created, cancelled, or awaiting a task that   *)
(* ended) joins the tail of the queue.  A task suspended on I/O or a timer *)
(* (a frame, a model chunk, a tool result, an HTTP reply, a sleep) resumes *)
(* when the queue is empty: the loop polls for I/O between two rounds of   *)
(* callbacks.  A step that does not suspend leaves the task at the head.   *)
(* websocket.send_json is taken not to suspend: the frame is on the wire   *)
(* when the call returns, or the call raises.                              *)
(***************************************************************************)
EXTENDS Integers, Sequences, FiniteSets, TLC

\* ------------------------------------------------------------- bounds
MaxFrames == 2     \* inbound frames received on one connection
MaxId == 2         \* response ids carried by inbound frames: 0..MaxId
MaxChunks == 1     \* chunks of one model stream
MaxBeats == 1      \* rounds of the heartbeat after its first ping
MaxDeltas == 2     \* chunks of the first model stream when one generation is studied
MaxProbes == 1     \* receive timeouts answered by a successful probe

\* ---------------------------------------------------------- task names
Main == <<"main", 0>>
Hb == <<"hb", 0>>
M(f) == <<"handle_message", f>>
R(i) == <<"_init_communications", i>>
H(f) == <<"handle_response_required", f>>

FrameIds == 1..MaxFrames

\* the value of a missing key
NoId == -1

\* ------------------------------------------------------- inbound data
GenerationKinds == {"response_required", "reminder_required"}

\* A frame as websocket.receive_json returns it.  kind "" is a frame with no
\* interaction_type key; rid NoId is a frame with no response_id key;
\* transcript FALSE is a frame with no transcript key.
\* call is the payload of a call_details frame: its call id ("" if absent),
\* whether it has dynamic variables, and their user_id ("" if absent); the
\* variables the greeting reads are absent unless Details puts them there.
Missing == "(missing)"
Call(call_id, variables, user_id) ==
    [call_id |-> call_id, variables |-> variables, user_id |-> user_id,
     first_interaction |-> Missing, user_name |-> Missing, bot_name |-> Missing]
\* a call whose dynamic variables have first_interaction, user_name, bot_name
Details(call, first_interaction, user_name, bot_name) ==
    [call EXCEPT !.first_interaction = first_interaction,
                 !.user_name = user_name, !.bot_name = bot_name]
NoCall == Call("", FALSE, "")
NoTimestamp == -1
Frame(kind, rid, transcript, call) ==
    [kind |-> kind, rid |-> rid, transcript |-> transcript, call |-> call,
     utterances |-> <<>>, timestamp |-> NoTimestamp]
\* a frame that has the key "timestamp"
Stamped(frame, timestamp) == [frame EXCEPT !.timestamp = timestamp]
\* an utterance of a transcript, {role, content}, and a frame whose transcript
\* has these utterances
Utterance(role, content) == [role |-> role, content |-> content]
Said(frame, utterances) == [frame EXCEPT !.utterances = utterances]


\* the reply to an HTTP call of cleanup: "http" with a status, whether the call
\* record has a summary and its duration_ms; or "error" (the call raised)
Reply(t, status, summary, ms) == [t |-> t, status |-> status, summary |-> summary, ms |-> ms]

\* ------------------------------------------------------ outbound frames
\* ResponseResponse(response_id, content, content_complete, end_call=False),
\* `by` is the inbound frame whose handling sent it (0: the handler itself)
Response(rid, content, complete, by) ==
    [type |-> "response", rid |-> rid, content |-> content, complete |-> complete, by |-> by,
     end_call |-> FALSE]
\* ConfigResponse(response_type="config", config={...}, response_id=1)
ConfigFrame ==
    [type |-> "config", rid |-> 1, content |-> "config", complete |-> FALSE, by |-> 0,
     config |-> [auto_reconnect |-> TRUE, call_details |-> TRUE]]

\* ----------------------------------------------------- model streaming
\* a tool-call delta of a streamed chunk; name and arguments are token
\* sequences (the empty sequence is the absent/empty string)
Delta(index, id, name, arguments) ==
    [index |-> index, id |-> id, name |-> name, arguments |-> arguments]
Chunk(content, tool_calls) == [content |-> content, tool_calls |-> tool_calls]
NoChunk == Chunk(FALSE, <<>>)

\* what a suspended generation resumes with: "ok", "fault" (the awaited call
\* raised), "chunk" with the chunk, "end" (the stream is over)
Ev(t, chunk) == [t |-> t, chunk |-> chunk]
EvNone == Ev("none", NoChunk)

VARIABLES
    impl,          \* which LlmClient the connection runs: "src/llm.py" or "llm.py"
    ready,         \* the event loop's FIFO queue of runnable tasks
    mainPc,        \* where websocket_handler is
    hbPc,          \* send_heartbeat: "none", "run", "done"
    hbCancel,      \* heartbeat_task.cancel() was called
    pings,         \* the ping_pong frames the heartbeat has sent
    ws,            \* the websocket: "connecting", "open", "down" (peer gone), "closed"
    frames,        \* the inbound frames received so far, in order
    msg,           \* handle_message task of frame f: "none", "new", "await", "done", "cancelled"
    gen,           \* handle_response_required task of frame f with its draft_response
    response_id,   \* the nonlocal response_id of websocket_handler
    active_tasks,  \* the set active_tasks of websocket_handler
    gathering,     \* the tasks the teardown's asyncio.gather waits for
    wire,          \* the configuration and response frames sent, in order
    session,       \* the LlmClient: call_id, metadata, message_history, client
    cl,            \* LlmClient.cleanup: attempt, fetches, posts
    tool,          \* one call taken on its own, execute() of a backend tool or
                   \* get_time_based_greeting: its fields, position and requests
    conns,         \* several runs of websocket_handler, each with its llm_client
    log            \* teardown steps in the order they were taken

vars == <<impl, ready, mainPc, hbPc, hbCancel, pings, ws, frames, msg, gen,
          response_id, active_tasks, gathering, wire, session, cl, tool, conns, log>>


\* ------------------------------------------------ draft_response: data
\* the five tools LlmClient._execute_tool dispatches on
KnownTools == {<<"Places", "Search">>, <<"Booking", "Request">>, <<"Call", "Request">>,
               <<"Message", "Request">>, <<"Property", "Search">>}
\* the tools _execute_tool dispatches on, by implementation
Dispatched(im) ==
    IF im = "src/llm.py" THEN KnownTools
    ELSE {<<"Places", "Search">>, <<"Booking", "Request">>}

\* json.loads on an argument string: the strings that parse are an opening
\* brace, keys, a closing brace; the value is the sequence of keys
ParseOk(s) ==
    /\ Len(s) >= 2
    /\ s[1] = "{"
    /\ s[Len(s)] = "}"
    /\ \A i \in 2..(Len(s) - 1) : s[i] \notin {"{", "}"}

JsonLoads(s) == SubSeq(s, 2, Len(s) - 1)

\* one tool-call delta folded into current_tool_calls (index is 0-based);
\* ok is FALSE when current_tool_calls[tool_call.index] raises IndexError,
\* which takes a name or an argument piece to store
Accumulate(tcs, d) ==
    LET a == IF d.index >= Len(tcs)
             THEN Append(tcs, [id |-> d.id, name |-> <<>>, arguments |-> <<>>])
             ELSE tcs
        i == d.index + 1
    IN  IF i > Len(a)
        THEN [ok |-> d.name = <<>> /\ d.arguments = <<>>, tcs |-> a]
        ELSE LET b == IF d.name # <<>> THEN [a EXCEPT ![i].name = d.name] ELSE a
                 c == IF d.arguments # <<>>
                      THEN [b EXCEPT ![i].arguments = @ \o d.arguments]
                      ELSE b
             IN  [ok |-> TRUE, tcs |-> c]

RECURSIVE AccumulateAll(_, _)
AccumulateAll(tcs, ds) ==
    IF ds = <<>>
    THEN [ok |-> TRUE, tcs |-> tcs]
    ELSE LET r == Accumulate(tcs, Head(ds))
         IN  IF r.ok THEN AccumulateAll(r.tcs, Tail(ds)) ELSE r

\* a tool message of tool_results
ToolResult(tc, content) == [tool_call_id |-> tc.id, name |-> tc.name, content |-> content]

\* a generator none of whose fragments is marked complete
FragmentIncomplete(content, complete) == [content |-> content, complete |-> FALSE]

\* a generator all of whose fragments are marked complete
FragmentAllComplete(content, complete) == [content |-> content, complete |-> TRUE]

\* a fragment the generator yields
Fragment(content, complete) == [content |-> content, complete |-> complete]
NoFragment == Fragment("-", FALSE)

\* the task handle_response_required(frame f) with its draft_response generator
GenIdle ==
    [pc |-> "none", rid |-> NoId, tcs |-> <<>>, k |-> 0,
     results |-> <<>>, n |-> 0, current_content |-> 0, yielded |-> <<>>,
     invoked |-> <<>>, deltas |-> <<>>, faults |-> <<>>, cancel |-> FALSE,
     prompt |-> <<>>, final |-> [messages |-> <<>>, tools |-> FALSE]]

Waiting == {"create1", "stream1", "toolwait", "create2", "stream2"}
Finished == {"done", "abandoned", "cancelled", "raised", "failed"}

\* What one step of the generator does: the state after it, the fragment it
\* yields (emit), whether the generator is exhausted once the fragment is
\* taken (end), and whether the step ends in a suspension (wait).
Outcome(g, emit, frag, end, wait) ==
    [g |-> g, emit |-> emit, frag |-> frag, end |-> end, wait |-> wait]

\* a handler whose apologetic fragment is not marked complete
ApologizeIncomplete(g, site) ==
    [g |-> [g EXCEPT !.faults = Append(@, site)], emit |-> TRUE,
     frag |-> [content |-> "apology", complete |-> FALSE], end |-> TRUE, wait |-> FALSE]

\* the handler of draft_response: one apologetic complete fragment
Apologize(g, site) ==
    Outcome([g EXCEPT !.faults = Append(@, site)],
            TRUE, Fragment("apology", TRUE), TRUE, FALSE)

\* the failure of tool call k, by implementation
ToolFailed(g, im) ==
    IF im = "src/llm.py"
    THEN Outcome([g EXCEPT !.results = Append(@, ToolResult(g.tcs[g.k], "error")),
                           !.k = @ + 1, !.pc = "tool",
                           !.faults = Append(@, "tool")],
                 FALSE, NoFragment, FALSE, FALSE)
    ELSE Outcome([g EXCEPT !.k = @ + 1, !.pc = "tool",
                           !.faults = Append(@, "tool")],
                 TRUE, Fragment("tool_issue", FALSE), FALSE, FALSE)

\* the second chat.completions.create: messages is the first call's list with
\* the assistant message and the tool_results appended, and no tools are given
SecondCall(g) ==
    [messages |-> g.prompt \o
                  <<[role |-> "assistant", content |-> g.current_content,
                     tool_calls |-> g.tcs]>> \o
                  [i \in 1..Len(g.results) |->
                      [role |-> "tool", tool_call_id |-> g.results[i].tool_call_id,
                       name |-> g.results[i].name, content |-> g.results[i].content]],
     tools |-> FALSE]

\* a generator that goes to its tool calls with no filler fragment
StreamEndedSilent(g) ==
    IF g.tcs # <<>>
    THEN Outcome([g EXCEPT !.pc = "tool", !.k = 1], FALSE, NoFragment, FALSE, FALSE)
    ELSE Outcome(g, TRUE, Fragment("", TRUE), TRUE, FALSE)

\* the first stream is over: with tool calls accumulated the filler fragment
\* (random.choice(wait_variants)) is yielded and the tool loop begins, with
\* none the completion fragment is yielded
StreamEnded(g) ==
    IF g.tcs # <<>>
    THEN Outcome([g EXCEPT !.pc = "tool", !.k = 1],
                 TRUE, Fragment("filler", FALSE), FALSE, FALSE)
    ELSE Outcome(g, TRUE, Fragment("", TRUE), TRUE, FALSE)

GenStep(g, e, im) ==
    LET g0 == g
    IN  CASE g.pc \in {"create1", "create2"} ->
               IF e.t = "ok"
               THEN Outcome([g0 EXCEPT !.pc = IF g.pc = "create1" THEN "stream1" ELSE "stream2",
                                       !.n = 0],
                            FALSE, NoFragment, FALSE, TRUE)
               ELSE Apologize(g, g.pc)
          [] g.pc = "stream1" ->
               IF e.t = "chunk"
               THEN LET acc == AccumulateAll(g.tcs, e.chunk.tool_calls)
                        g1 == [g0 EXCEPT !.tcs = acc.tcs, !.n = @ + 1,
                                         !.deltas = @ \o e.chunk.tool_calls]
                    IN  IF ~acc.ok
                        THEN Apologize(g, "stream1")
                        ELSE IF e.chunk.content
                        THEN Outcome([g1 EXCEPT !.current_content = @ + 1],
                                     TRUE, Fragment("text", FALSE), FALSE, TRUE)
                        ELSE Outcome(g1, FALSE, NoFragment, FALSE, TRUE)
               ELSE IF e.t = "end"
               THEN StreamEnded(g0)
               ELSE Apologize(g, "stream1")
          [] g.pc = "tool" ->
               IF g.k > Len(g.tcs)
               THEN Outcome([g0 EXCEPT !.pc = "create2", !.final = SecondCall(g)],
                            FALSE, NoFragment, FALSE, TRUE)
               ELSE LET tc == g.tcs[g.k]
                    IN  IF ~ParseOk(tc.arguments)
                        THEN ToolFailed(g, im)
                        ELSE LET g1 == [g0 EXCEPT !.invoked =
                                           Append(@, [k |-> g.k, name |-> tc.name,
                                                      args |-> JsonLoads(tc.arguments)])]
                             IN  IF tc.name \notin Dispatched(im)
                                 THEN ToolFailed(g1, im)
                                 ELSE Outcome([g1 EXCEPT !.pc = "toolwait"],
                                              FALSE, NoFragment, FALSE, TRUE)
          [] g.pc = "toolwait" ->
               IF e.t = "ok"
               THEN Outcome([g0 EXCEPT !.results = Append(@, ToolResult(g.tcs[g.k], "ok")),
                                       !.k = @ + 1, !.pc = "tool"],
                            FALSE, NoFragment, FALSE, FALSE)
               ELSE ToolFailed(g, im)
          [] g.pc = "stream2" ->
               IF e.t = "chunk"
               THEN IF e.chunk.content
                    THEN Outcome([g0 EXCEPT !.n = @ + 1],
                                 TRUE, Fragment("text", FALSE), FALSE, TRUE)
                    ELSE Outcome([g0 EXCEPT !.n = @ + 1], FALSE, NoFragment, FALSE, TRUE)
               ELSE IF e.t = "end"
               THEN Outcome(g0, TRUE, Fragment("", TRUE), TRUE, FALSE)
               ELSE Apologize(g, "stream2")
          [] OTHER -> Outcome(g, FALSE, NoFragment, FALSE, FALSE)


\* -------------------------------------------------------------- session
\* LlmClient.__init__
NoMetadata ==
    [present |-> FALSE, user_id |-> "",
     first_interaction |-> Missing, user_name |-> Missing, bot_name |-> Missing]
\* refresh: the _init_communications tasks set_metadata has created, each
\* "new", "pending" (in its GET), "done" or "failed"
NewSession ==
    [call_id |-> "", metadata |-> NoMetadata, message_history |-> <<>>, client |-> "open",
     communications_data |-> FALSE, refresh |-> <<>>]

\* no execute() of a backend tool is under way
NoTool ==
    [name |-> <<>>, time |-> <<>>, now |-> 0, pc |-> "none", posts |-> <<>>,
     status |-> 0, result |-> <<>>, error |-> ""]

\* the runs of websocket_handler side by side: where each one is, the object
\* its local llm_client refers to, the call_details frames it has received
\* with the greetings drawn for them, and the LlmClient objects made so far
MaxConns == 2
MaxCalls == 1
Conns == 1..MaxConns
NoClient == 0
NoConns ==
    [state |-> [c \in Conns |-> "none"], llm_client |-> [c \in Conns |-> NoClient],
     received |-> [c \in Conns |-> <<>>], objects |-> <<>>]

\* cleanup's loop (attempt), the requests it has made (fetches, posts), and
\* the world it runs in: record is the call record the external API holds
\* (whether its analysis has a summary, its duration_ms); call_id, eligible
\* user_id and analysed are the session and the record as cleanup found
\* them; failed tells that a fetch has failed, replies what the fetches were
\* answered, in order
NoRecord == [summary |-> FALSE, ms |-> 0]
NewCleanup ==
    [attempt |-> 0, fetches |-> 0, posts |-> <<>>, record |-> NoRecord,
     call_id |-> "", eligible |-> FALSE, user_id |-> "", analysed |-> FALSE,
     failed |-> FALSE, replies |-> <<>>]

\* ------------------------------------------------------------ scheduler
InReady(t) == \E i \in 1..Len(ready) : ready[i] = t
Running(t) == ready # <<>> /\ Head(ready) = t
\* the loop is idle: it polls for I/O and timers
Idle == ready = <<>>
\* the queue once task t has run its step and suspended or ended
Rest(t) == IF Running(t) THEN Tail(ready) ELSE ready
\* the queue once task t has run a step that does not suspend
Go(t) == <<t>> \o Rest(t)

\* the tasks H(f), f in S, that are not runnable yet, in the order of f
RECURSIVE Wake(_, _)
Wake(S, i) ==
    IF i > MaxFrames
    THEN <<>>
    ELSE (IF i \in S /\ ~InReady(H(i)) THEN <<H(i)>> ELSE <<>>) \o Wake(S, i + 1)

\* ------------------------------------------------------------------ Init
Init ==
    /\ impl \in {"src/llm.py", "llm.py"}
    /\ ready = <<Main>>
    /\ mainPc = "accept"
    /\ hbPc = "none"
    /\ hbCancel = FALSE
    /\ pings = 0
    /\ ws = "connecting"
    /\ frames = <<>>
    /\ msg = [f \in FrameIds |-> "none"]
    /\ gen = [f \in FrameIds |-> GenIdle]
    /\ response_id = 0
    /\ active_tasks = {}
    /\ gathering = {}
    /\ wire = <<>>
    /\ session = NewSession
    /\ cl = NewCleanup
    /\ tool = NoTool
    /\ conns = NoConns
    /\ log = <<>>

\* ----------------------------------------------- websocket_handler: serve
\* websocket.send_json: the frame is sent if the websocket is open, and the
\* call raises otherwise
Sent(fr) == IF ws = "open" THEN Append(wire, fr) ELSE wire

\* an accept that starts the heartbeat and sends no configuration
AcceptWithoutConfig ==
    /\ Running(Main)
    /\ mainPc = "accept"
    /\ ws' = "open"
    /\ hbPc' = "run"
    /\ mainPc' = "recv"
    /\ ready' = Rest(Main) \o <<Hb>>
    /\ UNCHANGED <<impl, tool, conns, hbCancel, pings, frames, msg, gen, response_id,
                   active_tasks, gathering, wire, session, cl, log>>

\* accept, create the client, start the heartbeat, send the configuration,
\* enter the receive loop and suspend in receive_json
Accept ==
    /\ Running(Main)
    /\ mainPc = "accept"
    /\ ws' = "open"
    /\ hbPc' = "run"
    /\ wire' = Append(wire, ConfigFrame)
    /\ mainPc' = "recv"
    /\ ready' = Rest(Main) \o <<Hb>>
    /\ UNCHANGED <<impl, tool, conns, hbCancel, pings, frames, msg, gen, response_id,
                   active_tasks, gathering, session, cl, log>>

\* a heartbeat that returns after its ping
PingOnce ==
    /\ hbPc' = "done"
    /\ pings' = IF ws = "open" THEN pings + 1 ELSE pings

\* one round of send_heartbeat: a ping, then asyncio.sleep(20); a failed send
\* ends the task
Ping ==
    IF ws = "open"
    THEN /\ pings' = pings + 1
         /\ hbPc' = hbPc
    ELSE /\ hbPc' = "done"
         /\ pings' = pings

\* the heartbeat task runs for the first time, or is cancelled
Heartbeat ==
    /\ Running(Hb)
    /\ ready' = Rest(Hb) \o (IF hbCancel /\ mainPc = "td_hb_wait" THEN <<Main>> ELSE <<>>)
    /\ IF hbCancel
       THEN /\ hbPc' = "done"
            /\ pings' = pings
       ELSE Ping
    /\ UNCHANGED <<impl, tool, conns, mainPc, hbCancel, ws, frames, msg, gen, response_id,
                   active_tasks, gathering, wire, session, cl, log>>

\* asyncio.sleep(20) of the heartbeat is over: the next round
HeartbeatTimer ==
    /\ Idle
    /\ hbPc = "run"
    /\ pings <= MaxBeats
    /\ Ping
    /\ UNCHANGED <<impl, tool, conns, ready, mainPc, hbCancel, ws, frames, msg, gen, response_id,
                   active_tasks, gathering, wire, session, cl, log>>

\* a receive loop that handles one frame to its end before it receives the next
ReceiveAfterGeneration(fr) ==
    /\ ready = <<>>
    /\ mainPc = "recv"
    /\ ws = "open"
    /\ Len(frames) < MaxFrames
    /\ \A f \in FrameIds : msg[f] \in {"none", "done"}
    /\ frames' = Append(frames, fr)
    /\ msg' = [msg EXCEPT ![Len(frames) + 1] = "new"]
    /\ ready' = <<M(Len(frames) + 1)>>
    /\ UNCHANGED <<impl, tool, conns, mainPc, hbPc, hbCancel, pings, ws, gen, response_id,
                   active_tasks, gathering, wire, session, cl, log>>

\* receive_json returns a frame: asyncio.create_task(handle_message(data)),
\* then receive_json again
Receive(fr) ==
    /\ Idle
    /\ mainPc = "recv"
    /\ ws = "open"
    /\ Len(frames) < MaxFrames
    /\ frames' = Append(frames, fr)
    /\ msg' = [msg EXCEPT ![Len(frames) + 1] = "new"]
    /\ ready' = <<M(Len(frames) + 1)>>
    /\ UNCHANGED <<impl, tool, conns, mainPc, hbPc, hbCancel, pings, ws, gen, response_id,
                   active_tasks, gathering, wire, session, cl, log>>

\* a frame that receive_json cannot decode as JSON
Malformed == Frame("malformed", NoId, FALSE, NoCall)

\* receive_json raises on a frame that is not JSON: neither except clause of
\* the loop catches it, the outer `except Exception` prints it, and the
\* finally block runs
ReceiveMalformed ==
    /\ Idle
    /\ mainPc = "recv"
    /\ ws = "open"
    /\ Len(frames) < MaxFrames
    /\ frames' = Append(frames, Malformed)
    /\ mainPc' = "td_hb"
    /\ ready' = <<Main>>
    /\ UNCHANGED <<impl, tool, conns, hbPc, hbCancel, pings, ws, msg, gen, response_id,
                   active_tasks, gathering, wire, session, cl, log>>

\* the ping_pong frame the receive loop sends after a timeout
Probe == [type |-> "ping_pong", rid |-> NoId, content |-> "probe", complete |-> FALSE, by |-> 0]
Probes == Len(SelectSeq(wire, LAMBDA fr : fr = Probe))

\* a loop that takes every timeout for a dead connection
ReceiveTimeoutBreaks ==
    /\ ready = <<>>
    /\ mainPc = "recv"
    /\ wire' = IF ws = "open" THEN Append(wire, Probe) ELSE wire
    /\ mainPc' = "td_hb"
    /\ ready' = <<Main>>
    /\ UNCHANGED <<impl, tool, conns, hbPc, hbCancel, pings, ws, frames, msg, gen,
                   response_id, active_tasks, gathering, session, cl, log>>

\* asyncio.wait_for times out after 30 s with no frame: the probe is sent and
\* the loop receives again, or its send raises and the loop breaks
ReceiveTimeout ==
    /\ Idle
    /\ mainPc = "recv"
    /\ IF ws = "open"
       THEN /\ Probes < MaxProbes
            /\ wire' = Append(wire, Probe)
            /\ UNCHANGED <<mainPc, ready>>
       ELSE /\ mainPc' = "td_hb"
            /\ ready' = <<Main>>
            /\ wire' = wire
    /\ UNCHANGED <<impl, tool, conns, hbPc, hbCancel, pings, ws, frames, msg, gen, response_id,
                   active_tasks, gathering, session, cl, log>>

\* the peer goes away, which the loop learns when it polls: from now on every
\* send raises
PeerCloses ==
    /\ Idle
    /\ ws = "open"
    /\ ws' = "down"
    /\ UNCHANGED <<impl, tool, conns, ready, mainPc, hbPc, hbCancel, pings, frames, msg, gen,
                   response_id, active_tasks, gathering, wire, session, cl, log>>

\* receive_json raises WebSocketDisconnect: break, into the finally block
ReceiveDisconnect ==
    /\ Idle
    /\ mainPc = "recv"
    /\ ws = "down"
    /\ mainPc' = "td_hb"
    /\ ready' = <<Main>>
    /\ UNCHANGED <<impl, tool, conns, hbPc, hbCancel, pings, ws, frames, msg, gen, response_id,
                   active_tasks, gathering, wire, session, cl, log>>

\* no task has run since the loop created the handle_message tasks at the end
\* of the queue: the loop is still the running task
Queued ==
    /\ ready # <<>>
    /\ \A i \in 1..Len(ready) :
          LET f == Len(frames) - Len(ready) + i
          IN  f >= 1 /\ ready[i] = M(f) /\ msg[f] = "new"

\* receive_json returns a frame that had arrived together with the one
\* before: wait_for awaits the coroutine itself and the loop passes from one
\* create_task to the next without suspending
ReceiveQueued(fr) ==
    /\ Queued
    /\ mainPc = "recv"
    /\ ws = "open"
    /\ Len(frames) < MaxFrames
    /\ frames' = Append(frames, fr)
    /\ msg' = [msg EXCEPT ![Len(frames) + 1] = "new"]
    /\ ready' = Append(ready, M(Len(frames) + 1))
    /\ UNCHANGED <<impl, tool, conns, mainPc, hbPc, hbCancel, pings, ws, gen, response_id,
                   active_tasks, gathering, wire, session, cl, log>>

\* what had arrived together with the frame before is the close of the peer,
\* or a frame that is not JSON: the loop enters the finally block while the
\* handle_message tasks it created have not run
ReceiveQueuedBreaks(closed) ==
    /\ Queued
    /\ mainPc = "recv"
    /\ ws = "open"
    /\ IF closed
       THEN /\ ws' = "down"
            /\ frames' = frames
       ELSE /\ Len(frames) < MaxFrames
            /\ frames' = Append(frames, Malformed)
            /\ ws' = ws
    /\ mainPc' = "td_hb"
    /\ ready' = <<Main>> \o ready
    /\ UNCHANGED <<impl, tool, conns, hbPc, hbCancel, pings, msg, gen, response_id,
                   active_tasks, gathering, wire, session, cl, log>>

\* ------------------------------------------------------- handle_message
\* data.get("response_id", 0)
DataRid(fr) == IF fr.rid = NoId THEN 0 ELSE fr.rid

\* the except block of handle_message: an apologetic frame for the frame's id
MessageError(f) == Sent(Response(DataRid(frames[f]), "hm_error", TRUE, f))

\* int(user_id) returns: the user ids that are numerals
Numeral(user_id) == user_id \in {"7"}

\* set_metadata returns: int(user_id), if it is made, does not raise
MetadataOk(call) == ~call.variables \/ call.user_id = "" \/ Numeral(call.user_id)

\* set_metadata creates a task for _init_communications: the dynamic
\* variables have a user_id
Refreshes(call) == call.variables /\ call.user_id # ""

\* LlmClient.set_metadata, as far as it creates the refresh task
StartRefresh(s, call) ==
    IF Refreshes(call) THEN [s EXCEPT !.refresh = Append(@, "new")] ELSE s

\* a client whose greeting and prompt wait for the refresh to be over
AwaitsRefreshPending(s) == \E i \in 1..Len(s.refresh) : s.refresh[i] \in {"new", "pending"}

\* what draft_begin_message and prepare_prompt wait for of the refresh:
\* nothing, the task is created and never awaited
AwaitsRefresh(s) == FALSE

\* LlmClient.set_metadata, as far as it sets call_id and metadata
SetMetadata(s, call) ==
    LET s1 == IF call.call_id # "" THEN [s EXCEPT !.call_id = call.call_id] ELSE s
    IN  IF call.variables
        THEN [s1 EXCEPT !.metadata =
                 [present |-> TRUE, user_id |-> call.user_id,
                  first_interaction |-> call.first_interaction,
                  user_name |-> call.user_name, bot_name |-> call.bot_name]]
        ELSE s1

\* ------------------------------------------- LlmClient.draft_begin_message
\* A text is the sequence of the pieces an f-string joins; the name Drew,
\* where a template spells it, is a piece of its own.
Hours == 0..23

\* a bucketing whose upper limits belong to the earlier bucket
get_time_based_greeting_late(hour) ==
    IF 5 <= hour /\ hour <= 12 THEN "Good morning"
    ELSE IF 12 <= hour /\ hour <= 17 THEN "Good afternoon"
    ELSE IF 17 <= hour /\ hour <= 22 THEN "Good evening"
    ELSE "Happy late night"

\* LlmClient.get_time_based_greeting, hour being datetime.now().hour
get_time_based_greeting(hour) ==
    IF 5 <= hour /\ hour < 12 THEN "Good morning"
    ELSE IF 12 <= hour /\ hour < 17 THEN "Good afternoon"
    ELSE IF 17 <= hour /\ hour < 22 THEN "Good evening"
    ELSE "Happy late night"

custom_wait_variants(time_greeting) ==
    <<<<time_greeting, "! I'm ", "Drew", ". How can I assist you today?">>,
      <<time_greeting, "! I'm ", "Drew", ". What do you need help with?">>,
      <<time_greeting, "! I'm ", "Drew", ". Ready to get started?">>,
      <<time_greeting, "! I'm ", "Drew", ". How's your day going?">>,
      <<"Hey there! I'm ", "Drew", ". How can I support you today?">>,
      <<"Hello! I'm ", "Drew", ". What's on your mind?">>,
      <<time_greeting, "! I'm ", "Drew", ". Let's make today productive!">>,
      <<time_greeting, "! I'm ", "Drew", ". Let me know how I can help!">>,
      <<"Hi! I'm ", "Drew", ". Need help with anything?">>,
      <<"Hey! I'm ", "Drew", ". What's the plan for today?">>>>

opening_lines ==
    <<<<"Hi, I'm ", "Drew", ", your virtual real estate assistant. How can I help you today?">>,
      <<"Hello, I'm ", "Drew", "! Ready to assist with all your real estate needs. What can I do for you?">>,
      <<"Hey there, I'm ", "Drew", "! Looking for your dream home or need help with your listings?">>,
      <<"Hi, I'm ", "Drew", ". Let's find the perfect property or tackle your real estate tasks together!">>,
      <<"Hello, I'm ", "Drew", ", your AI assistant. Let's make your real estate journey smoother. What's on your mind?">>,
      <<"Hi, I'm ", "Drew", "! Here to help with buying, selling, or managing your real estate needs.">>,
      <<"Hello, I'm ", "Drew", ". Whether it's scheduling a showing or finding leads, I've got you covered!">>,
      <<"Hi there, I'm ", "Drew", "! Ready to help with everything from listings to leads. How can I assist?">>,
      <<"Hey, I'm ", "Drew", ", your personal real estate assistant. Let's get to work!">>,
      <<"Hi, I'm ", "Drew", "! Need help finding a home or managing your clients? Just say the word!">>>>

FirstGreetings(time_greeting, user_name, bot_name) ==
    <<<<time_greeting, ", ", user_name, "! Welcome aboard! I'm ", bot_name, ", your personal assistant. I help manage leads, schedule appointments, track key metrics, and keep your workflow seamless. Let's get started!">>,
      <<"Hey ", user_name, ", great to have you here! I'm ", bot_name, ", your AI-powered assistant. I'll help you stay organized by managing leads, scheduling, and tracking key performance metrics. Let's make things efficient!">>,
      <<time_greeting, ", ", user_name, "! I'm ", bot_name, ", your virtual assistant. I handle lead management, scheduling, and performance tracking so you can focus on closing more deals.">>,
      <<"Welcome, ", user_name, "! I'm ", bot_name, ", designed to help you streamline your workflow by managing leads, scheduling appointments, and keeping track of your business performance.">>,
      <<"Nice to meet you, ", user_name, "! I'm ", bot_name, ", your smart assistant. I help you stay on top of leads, appointments, and key insights, making your workflow smoother and more efficient.">>,
      <<time_greeting, ", ", user_name, "! Congrats on getting started! I'm ", bot_name, ", your AI assistant, here to help with lead tracking, scheduling, and performance insights. Let's get things rolling!">>,
      <<"Hey ", user_name, "! I'm ", bot_name, ", your personal assistant! I'll handle scheduling, lead tracking, and key insights so you can focus on growing your business. Let's get started!">>,
      <<time_greeting, ", ", user_name, "! I'm ", bot_name, ", your AI-powered real estate assistant. I'll keep your workflow organized, track your performance, and help you stay productive. Let's go!">>>>

ReturningGreetings(time_greeting, user_name, third) ==
    <<<<time_greeting, ", ", user_name, "! Hope you're having a great day!">>,
      <<"Hey ", user_name, ", how's your day going?">>,
      <<"Hi ", user_name, third>>,
      <<"Good to see you, ", user_name, "! What's on your plate today?">>,
      <<time_greeting, ", ", user_name, ". How can I assist you today?">>,
      <<"Hello, ", user_name, ". Let me know how I can help!">>,
      <<time_greeting, ", ", user_name, ". Ready to tackle the day?">>,
      <<"Welcome back, ", user_name, ". What's your priority today?">>,
      <<"Hey ", user_name, ", let's make today productive!">>,
      <<time_greeting, ", ", user_name, "! Ready to close some deals?">>,
      <<"Hope you're feeling great, ", user_name, "! Let's get started.">>,
      <<time_greeting, ", ", user_name, "! What's the next big win for today?">>,
      <<"Hi ", user_name, ", how's business looking today?">>,
      <<"Hey ", user_name, ", anything exciting happening in real estate?">>,
      <<time_greeting, ", ", user_name, "! What's on your mind?">>,
      <<"Hello, ", user_name, ". Need help with anything specific?">>>>

\* metadata.get(key, default)
Get(value, default) == IF value = Missing THEN default ELSE value

\* the test that selects the first list of custom greetings
FirstInteraction(md, im) ==
    IF im = "src/llm.py" THEN md.first_interaction = "true"
    ELSE md.first_interaction # Missing

\* the name the first list of custom greetings gives the assistant
BotName(md, im) == IF im = "src/llm.py" THEN Get(md.bot_name, "Drew") ELSE "Drew"

\* custom_greeting, the list chosen when there is metadata
custom_greeting(md, time_greeting, im) ==
    IF FirstInteraction(md, im)
    THEN FirstGreetings(time_greeting, Get(md.user_name, ""), BotName(md, im))
    ELSE ReturningGreetings(time_greeting, Get(md.user_name, ""),
             IF im = "src/llm.py" THEN ", How's your day going?" ELSE ", what's new?")

\* random.choice(list)
Choices(list) == {list[i] : i \in DOMAIN list}

\* a draft_begin_message that takes a custom greeting whenever it has metadata
GreetingsWithoutName(md, hour, im) ==
    LET time_greeting == get_time_based_greeting(hour)
    IN  IF ~md.present
        THEN Choices(custom_wait_variants(time_greeting))
        ELSE Choices(custom_greeting(md, time_greeting, im))

\* the greetings draft_begin_message can choose
Greetings(md, hour, im) ==
    LET time_greeting == get_time_based_greeting(hour)
    IN  IF ~md.present
        THEN Choices(custom_wait_variants(time_greeting))
        ELSE IF Get(md.user_name, "") # ""
        THEN Choices(custom_greeting(md, time_greeting, im))
        ELSE Choices(opening_lines)

\* a draft_begin_message that starts the history anew with its greeting
DraftBeginMessageReplaces(s, greeting) ==
    [s EXCEPT !.message_history = <<[role |-> "assistant", content |-> greeting]>>]

\* a draft_begin_message that keeps no record of its greeting
DraftBeginMessageUnrecorded(s, greeting) == s

\* LlmClient.draft_begin_message from line 193 on: the greeting joins
\* message_history; what it returns is Response(0, greeting, TRUE, _)
DraftBeginMessage(s, greeting) ==
    [s EXCEPT !.message_history = Append(@, [role |-> "assistant", content |-> greeting])]

\* a handle_message without its try: a frame with no interaction_type raises
\* into the loop that runs it
HandleMessageUncaught(f) ==
    /\ ready # <<>> /\ Head(ready) = M(f)
    /\ msg[f] = "new"
    /\ frames[f].kind = ""
    /\ msg' = [msg EXCEPT ![f] = "done"]
    /\ mainPc' = "td_hb"
    /\ ready' = <<Main>>
    /\ UNCHANGED <<impl, tool, conns, hbPc, hbCancel, pings, ws, frames, gen, response_id,
                   active_tasks, gathering, wire, session, cl, log>>

\* an answer to a ping_pong frame that carries the time of the answer
PongRestamped(timestamp, f) ==
    [type |-> "ping_pong", rid |-> NoId, content |-> "pong", complete |-> FALSE, by |-> f,
     timestamp |-> 0]

\* the answer to a ping_pong frame: {"response_type": "ping_pong",
\* "timestamp": data["timestamp"]}
Pong(timestamp, f) ==
    [type |-> "ping_pong", rid |-> NoId, content |-> "pong", complete |-> FALSE, by |-> f,
     timestamp |-> timestamp]

\* handle_message(data) from its start to its first suspension or its end
HandleMessage(f) ==
    /\ Running(M(f))
    /\ msg[f] = "new"
    /\ LET fr == frames[f]
       IN  IF fr.kind = ""
           THEN /\ wire' = MessageError(f)
                /\ msg' = [msg EXCEPT ![f] = "done"]
                /\ ready' = Rest(M(f))
                /\ UNCHANGED <<gen, active_tasks, session>>
           ELSE IF fr.kind = "call_details" /\ ~MetadataOk(fr.call)
           THEN /\ session' = SetMetadata(session, fr.call)
                /\ wire' = MessageError(f)
                /\ msg' = [msg EXCEPT ![f] = "done"]
                /\ ready' = Rest(M(f))
                /\ UNCHANGED <<gen, active_tasks>>
           ELSE IF fr.kind = "call_details"
           THEN /\ ~AwaitsRefresh(session)
                /\ \E hour \in Hours :
                   \E greeting \in Greetings(SetMetadata(session, fr.call).metadata, hour, impl) :
                      /\ session' = DraftBeginMessage(
                                        StartRefresh(SetMetadata(session, fr.call), fr.call),
                                        greeting)
                      /\ wire' = Sent(Response(0, greeting, TRUE, f))
                /\ msg' = [msg EXCEPT ![f] = "done"]
                /\ ready' = Rest(M(f)) \o
                            (IF Refreshes(fr.call)
                             THEN <<R(Len(session.refresh) + 1)>> ELSE <<>>)
                /\ UNCHANGED <<gen, active_tasks>>
           ELSE IF fr.kind = "ping_pong"
           THEN /\ wire' = IF fr.timestamp = NoTimestamp
                            THEN MessageError(f)
                            ELSE Sent(Pong(fr.timestamp, f))
                /\ msg' = [msg EXCEPT ![f] = "done"]
                /\ ready' = Rest(M(f))
                /\ UNCHANGED <<gen, active_tasks, session>>
           ELSE IF fr.kind \in GenerationKinds
           THEN /\ gen' = [gen EXCEPT ![f].pc = "new"]
                /\ active_tasks' = active_tasks \cup {f}
                /\ msg' = [msg EXCEPT ![f] = "await"]
                /\ ready' = Rest(M(f)) \o <<H(f)>>
                /\ UNCHANGED <<wire, session>>
           ELSE /\ msg' = [msg EXCEPT ![f] = "done"]
                /\ ready' = Rest(M(f))
                /\ UNCHANGED <<wire, gen, active_tasks, session>>
    /\ UNCHANGED <<impl, tool, conns, mainPc, hbPc, hbCancel, pings, ws, frames, response_id,
                   gathering, cl, log>>

\* `await task` of handle_message returns or raises
HandleMessageResumes(f) ==
    /\ Running(M(f))
    /\ msg[f] = "await"
    /\ IF gen[f].pc = "cancelled"
       THEN /\ msg' = [msg EXCEPT ![f] = "cancelled"]
            /\ wire' = wire
       ELSE IF gen[f].pc = "raised"
       THEN /\ msg' = [msg EXCEPT ![f] = "done"]
            /\ wire' = MessageError(f)
       ELSE /\ msg' = [msg EXCEPT ![f] = "done"]
            /\ wire' = wire
    /\ ready' = Rest(M(f))
    /\ UNCHANGED <<impl, tool, conns, mainPc, hbPc, hbCancel, pings, ws, frames, gen, response_id,
                   active_tasks, gathering, session, cl, log>>

\* --------------------------------------------- handle_response_required
\* the task ends: its done callbacks discard it from active_tasks, wake the
\* handle_message that awaits it and, if it was the last one, the gather
Finish(f, g) ==
    /\ gen' = [gen EXCEPT ![f] = g]
    /\ active_tasks' = active_tasks \ {f}
    /\ gathering' = gathering \ {f}
    /\ ready' = Rest(H(f)) \o <<M(f)>> \o
                (IF mainPc = "td_gather" /\ f \in gathering /\ gathering \ {f} = {}
                 THEN <<Main>> ELSE <<>>)

\* a check that gives way to any other response id, a lower one included
SupersededByAny(rid, latest) == rid # latest

\* a loop over the generator that makes no check
SupersededNever(rid, latest) == FALSE

\* line 92: the check made on each event the generator yields
Superseded(rid, latest) == rid < latest

\* the except block of handle_response_required
ResponseError(f, g) == Sent(Response(g.rid, "hrr_error", TRUE, f))

\* the task goes on after a step of the generator: suspended, or not
Continue(f, o) ==
    /\ gen' = [gen EXCEPT ![f] = o.g]
    /\ ready' = IF o.wait THEN Rest(H(f)) ELSE Go(H(f))
    /\ UNCHANGED <<active_tasks, gathering>>

\* one step of the generator inside `async for event in draft_response`:
\* the check, the send, and what a failed send leads to
Apply(f, o, latest) ==
    LET g == [o.g EXCEPT !.yielded = Append(@, o.frag)]
    IN  IF ~o.emit
        THEN /\ Continue(f, o)
             /\ wire' = wire
        ELSE IF Superseded(g.rid, latest)
        THEN /\ Finish(f, [g EXCEPT !.pc = "abandoned"])
             /\ wire' = wire
        ELSE IF ws = "open"
        THEN /\ wire' = Sent(Response(g.rid, o.frag.content, o.frag.complete, f))
             /\ IF o.end
                THEN Finish(f, [g EXCEPT !.pc = "done"])
                ELSE Continue(f, [o EXCEPT !.g = g])
        ELSE \E exc \in {"WebSocketDisconnect", "Exception"} :
                IF exc = "WebSocketDisconnect"
                THEN /\ Finish(f, [g EXCEPT !.pc = "raised"])
                     /\ wire' = wire
                ELSE /\ Finish(f, [g EXCEPT !.pc = "failed"])
                     /\ wire' = ResponseError(f, g)

\* ------------------------------------------------ LlmClient.prepare_prompt
\* the system message: the persona, the date and time, the personalized context
SystemMessage ==
    [role |-> "system",
     content |-> <<"agent_prompt", "Current Date and Time", "Personalized Context">>]

\* the instruction that ends the prompt of a reminder, by implementation
ReminderInstruction(im) ==
    [role |-> "user",
     content |-> IF im = "src/llm.py"
                 THEN <<"(Provide tailored recommendations based on the agent's recent activity and pending follow-ups:)">>
                 ELSE <<"(Provide tailored recommendations based on the agent's preferences and recent activity:)">>]

\* a conversion for which every utterance that is not the user's is the assistant's
ConvertUserOnly(message_history, transcript) ==
    [i \in 1..Len(message_history) |->
        [role |-> message_history[i].role, content |-> message_history[i].content]] \o
    [i \in 1..Len(transcript) |->
        [role |-> IF transcript[i].role = "user" THEN "user" ELSE "assistant",
         content |-> transcript[i].content]]

\* LlmClient.convert_transcript_to_messages
convert_transcript_to_messages(message_history, transcript) ==
    [i \in 1..Len(message_history) |->
        [role |-> message_history[i].role, content |-> message_history[i].content]] \o
    [i \in 1..Len(transcript) |->
        [role |-> IF transcript[i].role = "agent" THEN "assistant" ELSE "user",
         content |-> transcript[i].content]]

\* LlmClient.prepare_prompt, for the request of frame fr
prepare_prompt(s, fr, im) ==
    <<SystemMessage>> \o
    convert_transcript_to_messages(s.message_history, fr.utterances) \o
    (IF fr.kind = "reminder_required" THEN <<ReminderInstruction(im)>> ELSE <<>>)

\* a draft_response that records what it drafts in message_history
DraftingRecords(s) ==
    [s EXCEPT !.message_history = Append(@, [role |-> "assistant", content |-> <<"draft">>])]

\* what a step of draft_response does to the session: prepare_prompt reads
\* message_history and metadata, and nothing is written
Drafting(s) == s

\* a handler that takes the response id of a frame only once its request is
\* built
LatestOnceBuilt(fr, built) == IF built THEN fr.rid ELSE response_id

\* line 81: response_id is assigned from the frame before the request is
\* built, whether the building then succeeds (built) or raises
Latest(fr, built) == fr.rid

\* handle_response_required from its start to the first model call; fault:
\* prepare_prompt raises
StartResponse(f, fault) ==
    /\ Running(H(f))
    /\ gen[f].pc = "new"
    /\ ~gen[f].cancel
    /\ ~AwaitsRefresh(session)
    /\ LET fr == frames[f]
           g == [gen[f] EXCEPT !.rid = fr.rid, !.pc = "create1"]
       IN  IF fr.rid = NoId
           THEN /\ Finish(f, [gen[f] EXCEPT !.pc = "failed"])
                /\ UNCHANGED <<wire, response_id>>
           ELSE IF ~fr.transcript
           THEN /\ response_id' = Latest(fr, FALSE)
                /\ Finish(f, [gen[f] EXCEPT !.pc = "failed"])
                /\ wire' = wire
           ELSE /\ response_id' = Latest(fr, TRUE)
                /\ IF fault
                   THEN Apply(f, Apologize(g, "prompt"), fr.rid)
                   ELSE Apply(f, Outcome([g EXCEPT !.prompt = prepare_prompt(session, fr, impl)],
                                         FALSE, NoFragment, FALSE, TRUE), fr.rid)
    /\ session' = Drafting(session)
    /\ UNCHANGED <<impl, tool, conns, mainPc, hbPc, hbCancel, pings, ws, frames, msg,
                   cl, log>>

\* what the model or a tool can answer to a suspended generation: chunks are
\* the chunks of the first stream, sites the awaits that may raise
Replies(g, chunks, sites, max) ==
    (IF g.pc \in sites THEN {Ev("fault", NoChunk)} ELSE {}) \cup
    CASE g.pc \in {"create1", "create2", "toolwait"} -> {Ev("ok", NoChunk)}
      [] g.pc = "stream1" ->
            {Ev("end", NoChunk)} \cup
            (IF g.n < max THEN {Ev("chunk", c) : c \in chunks} ELSE {})
      [] g.pc = "stream2" ->
            {Ev("end", NoChunk)} \cup
            (IF g.n < MaxChunks THEN {Ev("chunk", Chunk(TRUE, <<>>))} ELSE {})
      [] OTHER -> {}

\* the model or a tool answers and the suspended generation resumes with e
StepResponse(f, e) ==
    /\ Idle
    /\ gen[f].pc \in Waiting
    /\ Apply(f, GenStep(gen[f], e, impl), response_id)
    /\ session' = Drafting(session)
    /\ UNCHANGED <<impl, tool, conns, mainPc, hbPc, hbCancel, pings, ws, frames, msg, response_id,
                   cl, log>>

\* the tool loop goes on without suspending
StepTools(f) ==
    /\ Running(H(f))
    /\ gen[f].pc = "tool"
    /\ ~gen[f].cancel
    /\ Apply(f, GenStep(gen[f], EvNone, impl), response_id)
    /\ session' = Drafting(session)
    /\ UNCHANGED <<impl, tool, conns, mainPc, hbPc, hbCancel, pings, ws, frames, msg, response_id,
                   cl, log>>

\* task.cancel(): CancelledError is raised in the task where it is suspended
\* (or before its first step), and neither draft_response nor
\* handle_response_required catches it
Cancelled(f) ==
    /\ Running(H(f))
    /\ gen[f].cancel
    /\ Finish(f, [gen[f] EXCEPT !.pc = "cancelled"])
    /\ UNCHANGED <<impl, tool, conns, mainPc, hbPc, hbCancel, pings, ws, frames, msg, response_id,
                   wire, session, cl, log>>

\* a teardown that cancels the heartbeat and does not await it
CancelHeartbeatNoWait ==
    /\ Running(Main)
    /\ mainPc = "td_hb"
    /\ log' = Append(log, "cancel_heartbeat")
    /\ mainPc' = "td_tasks"
    /\ IF hbPc = "done"
       THEN UNCHANGED <<ready, hbCancel>>
       ELSE /\ hbCancel' = TRUE
            /\ ready' = ready \o (IF InReady(Hb) THEN <<>> ELSE <<Hb>>)
    /\ UNCHANGED <<impl, tool, conns, hbPc, pings, ws, frames, msg, gen, response_id,
                   active_tasks, gathering, wire, session, cl>>

\* ------------------------------------------- websocket_handler: finally
\* heartbeat_task.cancel(); await heartbeat_task
CancelHeartbeat ==
    /\ Running(Main)
    /\ mainPc = "td_hb"
    /\ log' = Append(log, "cancel_heartbeat")
    /\ IF hbPc = "done"
       THEN /\ mainPc' = "td_tasks"
            /\ UNCHANGED <<ready, hbCancel>>
       ELSE /\ hbCancel' = TRUE
            /\ mainPc' = "td_hb_wait"
            /\ ready' = Rest(Main) \o (IF InReady(Hb) THEN <<>> ELSE <<Hb>>)
    /\ UNCHANGED <<impl, tool, conns, hbPc, pings, ws, frames, msg, gen, response_id,
                   active_tasks, gathering, wire, session, cl>>

\* a teardown that cancels the tasks and does not await them
CancelTasksNoWait ==
    /\ ready # <<>> /\ Head(ready) = Main
    /\ mainPc \in {"td_tasks", "td_hb_wait"}
    /\ gen' = [f \in FrameIds |->
                 IF f \in active_tasks THEN [gen[f] EXCEPT !.cancel = TRUE] ELSE gen[f]]
    /\ mainPc' = "td_cleanup"
    /\ ready' = ready \o
                 SelectSeq([i \in FrameIds |-> H(i)],
                           LAMBDA t : t[2] \in active_tasks /\ \A j \in 1..Len(ready) : ready[j] # t)
    /\ log' = IF active_tasks = {} THEN log ELSE Append(log, "cancel_tasks")
    /\ UNCHANGED <<impl, tool, conns, hbPc, hbCancel, pings, ws, frames, msg, response_id,
                   active_tasks, gathering, wire, session, cl>>

\* if active_tasks: cancel each task, await asyncio.gather(*active_tasks)
CancelTasks ==
    /\ Running(Main)
    /\ mainPc \in {"td_tasks", "td_hb_wait"}
    /\ IF active_tasks = {}
       THEN /\ mainPc' = "td_cleanup"
            /\ UNCHANGED <<ready, gen, gathering, log>>
       ELSE /\ gen' = [f \in FrameIds |->
                         IF f \in active_tasks THEN [gen[f] EXCEPT !.cancel = TRUE] ELSE gen[f]]
            /\ gathering' = active_tasks
            /\ mainPc' = "td_gather"
            /\ ready' = Rest(Main) \o Wake(active_tasks, 1)
            /\ log' = Append(log, "cancel_tasks")
    /\ UNCHANGED <<impl, tool, conns, hbPc, hbCancel, pings, ws, frames, msg, response_id,
                   active_tasks, wire, session, cl>>

\* a finally block that clears the history and the metadata and keeps the call id
ClearedButCallId(s) ==
    [s EXCEPT !.message_history = <<>>, !.metadata = NoMetadata]

\* ------------------------------------------------------ LlmClient.cleanup
\* the finally block of cleanup up to `await self.client.close()`
Cleared(s) ==
    [s EXCEPT !.message_history = <<>>, !.metadata = NoMetadata, !.call_id = ""]

\* a duration left in milliseconds
DurationMs(ms) == ms

\* duration_seconds = call_data['duration_ms'] / 1000; "duration": int(duration_seconds)
Duration(ms) == ms \div 1000

\* the data of the POST to save_communication
CallRecord(s, reply) ==
    [user_id |-> s.metadata.user_id, call_id |-> s.call_id, duration |-> Duration(reply.ms)]

\* max_retries of cleanup
MaxRetries == 3

\* if self.call_id and self.metadata: ... if user_id:
Persists(s) == s.call_id # "" /\ s.metadata.present /\ s.metadata.user_id # ""

\* await llm_client.cleanup(): up to the first fetch of the call record, or
\* straight to the finally block
CleanupStarts ==
    /\ Running(Main)
    /\ mainPc \in {"td_cleanup", "td_gather"}
    /\ log' = Append(log, "cleanup")
    /\ ready' = Rest(Main)
    /\ IF Persists(session)
       THEN /\ cl' = [cl EXCEPT !.attempt = 0, !.fetches = @ + 1,
                                !.call_id = session.call_id, !.eligible = TRUE,
                                !.user_id = session.metadata.user_id,
                                !.analysed = cl.record.summary]
            /\ mainPc' = "cl_get"
            /\ session' = session
       ELSE /\ session' = Cleared(session)
            /\ mainPc' = "cl_close"
            /\ cl' = [cl EXCEPT !.call_id = session.call_id,
                                !.analysed = cl.record.summary]
    /\ UNCHANGED <<impl, tool, conns, hbPc, hbCancel, pings, ws, frames, msg, gen, response_id,
                   active_tasks, gathering, wire>>

\* the external service finishes the call analysis while cleanup polls
AnalysisReady ==
    /\ mainPc \in {"cl_get", "cl_sleep"}
    /\ ~cl.record.summary
    /\ cl' = [cl EXCEPT !.record.summary = TRUE]
    /\ UNCHANGED <<impl, tool, conns, ready, mainPc, hbPc, hbCancel, pings, ws, frames, msg, gen,
                   response_id, active_tasks, gathering, wire, session, log>>

\* the replies GET get-call can end with: the record, an error status, an exception
FetchReplies(record) ==
    {Reply("http", 200, record.summary, record.ms), Reply("http", 500, FALSE, 0),
     Reply("error", 0, FALSE, 0)}

\* a loop that sleeps and fetches again after an error status too
CleanupFetchedRetriesOnFailure(r) ==
    /\ Idle
    /\ mainPc = "cl_get"
    /\ IF r.t = "http" /\ r.status = 200 /\ r.summary /\ Numeral(session.metadata.user_id)
       THEN /\ cl' = [cl EXCEPT !.posts = Append(@, CallRecord(session, r)),
                                !.replies = Append(@, r)]
            /\ mainPc' = "cl_post"
            /\ session' = session
       ELSE IF r.t = "http" /\ ~r.summary /\ cl.attempt < MaxRetries - 1
       THEN /\ mainPc' = "cl_sleep"
            /\ cl' = [cl EXCEPT !.replies = Append(@, r)]
            /\ session' = session
       ELSE /\ mainPc' = "cl_close"
            /\ session' = Cleared(session)
            /\ cl' = [cl EXCEPT !.failed = @ \/ r.t # "http" \/ r.status # 200,
                                !.replies = Append(@, r)]
    /\ UNCHANGED <<impl, tool, conns, ready, hbPc, hbCancel, pings, ws, frames, msg, gen, response_id,
                   active_tasks, gathering, wire, log>>

\* the reply to GET get-call: post the record, wait for the analysis, or stop
\* (an error status, the last attempt, an exception in building the data)
CleanupFetched(r) ==
    /\ Idle
    /\ mainPc = "cl_get"
    /\ IF r.t = "http" /\ r.status = 200 /\ r.summary /\ Numeral(session.metadata.user_id)
       THEN /\ cl' = [cl EXCEPT !.posts = Append(@, CallRecord(session, r)),
                                !.replies = Append(@, r)]
            /\ mainPc' = "cl_post"
            /\ session' = session
       ELSE IF r.t = "http" /\ r.status = 200 /\ ~r.summary /\ cl.attempt < MaxRetries - 1
       THEN /\ mainPc' = "cl_sleep"
            /\ cl' = [cl EXCEPT !.replies = Append(@, r)]
            /\ session' = session
       ELSE /\ mainPc' = "cl_close"
            /\ session' = Cleared(session)
            /\ cl' = [cl EXCEPT !.failed = @ \/ r.t # "http" \/ r.status # 200,
                                !.replies = Append(@, r)]
    /\ UNCHANGED <<impl, tool, conns, ready, hbPc, hbCancel, pings, ws, frames, msg, gen, response_id,
                   active_tasks, gathering, wire, log>>

\* a retry loop that does not count its attempts
CleanupRetriesUncounted ==
    /\ ready = <<>>
    /\ mainPc = "cl_sleep"
    /\ cl' = [cl EXCEPT !.fetches = @ + 1]
    /\ mainPc' = "cl_get"
    /\ UNCHANGED <<impl, tool, conns, ready, hbPc, hbCancel, pings, ws, frames, msg, gen, response_id,
                   active_tasks, gathering, wire, session, log>>

\* asyncio.sleep(2) is over: the next attempt
CleanupRetries ==
    /\ Idle
    /\ mainPc = "cl_sleep"
    /\ cl' = [cl EXCEPT !.attempt = @ + 1, !.fetches = @ + 1]
    /\ mainPc' = "cl_get"
    /\ UNCHANGED <<impl, tool, conns, ready, hbPc, hbCancel, pings, ws, frames, msg, gen, response_id,
                   active_tasks, gathering, wire, session, log>>

\* the POST is over (any status, or an exception): break, into the finally block
CleanupPosted(r) ==
    /\ Idle
    /\ mainPc = "cl_post"
    /\ session' = Cleared(session)
    /\ mainPc' = "cl_close"
    /\ UNCHANGED <<impl, tool, conns, ready, hbPc, hbCancel, pings, ws, frames, msg, gen, response_id,
                   active_tasks, gathering, wire, cl, log>>

\* `await self.client.close()` in the finally block of cleanup: it returns and
\* teardown goes on, or it raises and the exception leaves cleanup and the
\* finally block of websocket_handler
CleanupCloses(raises) ==
    /\ Idle
    /\ mainPc = "cl_close"
    /\ IF ~raises
       THEN /\ session' = [session EXCEPT !.client = "closed"]
            /\ mainPc' = "td_close"
            /\ log' = Append(log, "cleanup_done")
            /\ ready' = <<Main>>
       ELSE /\ mainPc' = "raised"
            /\ UNCHANGED <<ready, session, log>>
    /\ UNCHANGED <<impl, tool, conns, hbPc, hbCancel, pings, ws, frames, msg, gen, response_id,
                   active_tasks, gathering, wire, cl>>

\* await websocket.close(); an exception is printed
Close ==
    /\ Running(Main)
    /\ mainPc = "td_close"
    /\ ws' = "closed"
    /\ log' = Append(log, "close")
    /\ mainPc' = "done"
    /\ ready' = Rest(Main)
    /\ UNCHANGED <<impl, tool, conns, hbPc, hbCancel, pings, frames, msg, gen, response_id,
                   active_tasks, gathering, wire, session, cl>>

\* ------------------------------------------------------- the connection
\* the frames the peer sends: requests, and a frame with no interaction_type
RequestFrames ==
    {Frame("response_required", rid, TRUE, NoCall) : rid \in 1..MaxId}
PeerFrames ==
    RequestFrames \cup {Frame("", 1, TRUE, NoCall)}

\* the chunks of a model stream: a text delta, a whole tool call
TextChunk == Chunk(TRUE, <<>>)
ToolChunk == Chunk(FALSE, <<Delta(0, "call_0", <<"Places", "Search">>, <<"{", "k", "}">>)>>)
ModelChunks == {TextChunk, ToolChunk}
\* the awaits that raise in this specification: the first stream, a tool
ModelFaults == {"stream1", "toolwait"}

Serve ==
    \/ Accept
    \/ Heartbeat
    \/ HeartbeatTimer
    \/ \E fr \in PeerFrames : Receive(fr)
    \/ PeerCloses
    \/ ReceiveDisconnect
    \/ \E f \in FrameIds : HandleMessage(f)
    \/ \E f \in FrameIds : HandleMessageResumes(f)
    \/ \E f \in FrameIds : StartResponse(f, FALSE)
    \/ \E f \in FrameIds : \E e \in Replies(gen[f], ModelChunks, ModelFaults, MaxChunks) : StepResponse(f, e)
    \/ \E f \in FrameIds : StepTools(f)
    \/ \E f \in FrameIds : Cancelled(f)

Teardown ==
    \/ CancelHeartbeat
    \/ CancelTasks
    \/ CleanupStarts
    \/ \E raises \in BOOLEAN : CleanupCloses(raises)
    \/ Close

Next == Serve \/ Teardown

Spec == Init /\ [][Next]_vars

\* ------------------------------------------------------------ the greeting
\* the call_details frames the peer sends: without dynamic variables, under
\* one call id or another, or with dynamic variables that have or miss
\* first_interaction, user_name, bot_name
GreetingCalls ==
    {Call("call_1", FALSE, ""), Call("call_2", FALSE, "")} \cup
    {Details(Call("call_1", TRUE, ""), first_interaction, user_name, bot_name) :
        first_interaction \in {Missing, "true", "false"},
        user_name \in {Missing, "Ada"},
        bot_name \in {Missing, "Max"}}
GreetingFrames == {Frame("call_details", NoId, FALSE, call) : call \in GreetingCalls}

NextGreeting ==
    \/ Accept
    \/ Heartbeat
    \/ HeartbeatTimer
    \/ \E fr \in GreetingFrames : Receive(fr)
    \/ \E f \in FrameIds : HandleMessage(f)
    \/ PeerCloses
    \/ ReceiveDisconnect

SpecGreeting == Init /\ [][NextGreeting]_vars

\* ---------------------------------------------------------- the echo
\* the frames the peer sends here: ping_pong with a timestamp or without,
\* update_only, a kind handle_message does not know, and a call_details frame
EchoFrames ==
    {Stamped(Frame("ping_pong", NoId, FALSE, NoCall), t) : t \in {NoTimestamp, 5, 6}} \cup
    {Frame("update_only", NoId, TRUE, NoCall), Frame("agent_interrupt", 1, TRUE, NoCall),
     Frame("call_details", NoId, FALSE, Call("call_1", TRUE, ""))}

NextEcho ==
    \/ Accept
    \/ Heartbeat
    \/ HeartbeatTimer
    \/ \E fr \in EchoFrames : Receive(fr)
    \/ \E f \in FrameIds : HandleMessage(f)
    \/ PeerCloses
    \/ ReceiveDisconnect

SpecEcho == Init /\ [][NextEcho]_vars

\* ------------------------------------------------------- the connections
\* the call_details frames the peers send here
ConnCalls ==
    {Call("call_1", FALSE, ""), Details(Call("call_2", TRUE, "7"), "false", "Ada", Missing)}

\* a client made once and handed to every connection
MadeOnce(objects) == IF objects = <<>> THEN <<NewSession>> ELSE objects

\* llm_client = LlmClient(): the objects once the new one is made, the last of
\* them being the new one
Made(objects) == Append(objects, NewSession)

\* websocket.accept() and llm_client = LlmClient() of connection c
ConnAccept(c) ==
    /\ conns.state[c] = "none"
    /\ conns' = [conns EXCEPT !.state[c] = "open",
                              !.objects = Made(@),
                              !.llm_client[c] = Len(Made(conns.objects))]
    /\ UNCHANGED <<impl, tool, ready, mainPc, hbPc, hbCancel, pings, ws, frames, msg, gen,
                   response_id, active_tasks, gathering, wire, session, cl, log>>

\* connection c handles a call_details frame: set_metadata and
\* draft_begin_message on its llm_client
ConnCallDetails(c, call) ==
    /\ conns.state[c] = "open"
    /\ Len(conns.received[c]) < MaxCalls
    /\ LET ref == conns.llm_client[c]
           s == SetMetadata(conns.objects[ref], call)
       IN  \E greeting \in Greetings(s.metadata, 9, impl) :
              conns' = [conns EXCEPT
                           !.objects[ref] = DraftBeginMessage(s, greeting),
                           !.received[c] = Append(@, [call |-> call, greeting |-> greeting])]
    /\ UNCHANGED <<impl, tool, ready, mainPc, hbPc, hbCancel, pings, ws, frames, msg, gen,
                   response_id, active_tasks, gathering, wire, session, cl, log>>

\* the finally block of connection c: llm_client.cleanup()
ConnTeardown(c) ==
    /\ conns.state[c] = "open"
    /\ conns' = [conns EXCEPT !.state[c] = "closed",
                              !.objects[conns.llm_client[c]] = Cleared(@)]
    /\ UNCHANGED <<impl, tool, ready, mainPc, hbPc, hbCancel, pings, ws, frames, msg, gen,
                   response_id, active_tasks, gathering, wire, session, cl, log>>

NextConns ==
    \/ \E c \in Conns : ConnAccept(c)
    \/ \E c \in Conns : \E call \in ConnCalls : ConnCallDetails(c, call)
    \/ \E c \in Conns : ConnTeardown(c)

SpecConns == Init /\ [][NextConns]_vars

\* ------------------------------------------------------------ the refresh
\* _init_communications runs up to its GET and suspends
RefreshStarts(i) ==
    /\ Running(R(i))
    /\ session.refresh[i] = "new"
    /\ session' = [session EXCEPT !.refresh[i] = "pending"]
    /\ ready' = Rest(R(i))
    /\ UNCHANGED <<impl, tool, conns, mainPc, hbPc, hbCancel, pings, ws, frames, msg, gen,
                   response_id, active_tasks, gathering, wire, cl, log>>

\* the GET is answered: status 200 stores the snapshot, another status or an
\* exception is printed
RefreshReplies(i, reply) ==
    /\ Idle
    /\ i \in 1..Len(session.refresh)
    /\ session.refresh[i] = "pending"
    /\ session' = IF reply = "ok"
                  THEN [session EXCEPT !.refresh[i] = "done", !.communications_data = TRUE]
                  ELSE [session EXCEPT !.refresh[i] = "failed"]
    /\ UNCHANGED <<impl, tool, conns, ready, mainPc, hbPc, hbCancel, pings, ws, frames, msg,
                   gen, response_id, active_tasks, gathering, wire, cl, log>>

\* what the event loop and the model are sure to do in time: every step but
\* the peer's frames and the answer to the refresh
RefreshProgress ==
    \/ Accept
    \/ Heartbeat
    \/ \E f \in FrameIds : HandleMessage(f)
    \/ \E f \in FrameIds : HandleMessageResumes(f)
    \/ \E f \in FrameIds : StartResponse(f, FALSE)
    \/ \E f \in FrameIds : \E e \in Replies(gen[f], {TextChunk}, {}, MaxChunks) : StepResponse(f, e)
    \/ \E i \in FrameIds : RefreshStarts(i)

NextRefresh ==
    \/ RefreshProgress
    \/ \E fr \in {Frame("call_details", NoId, FALSE, Call("call_1", TRUE, "7")),
                  Frame("response_required", 1, TRUE, NoCall)} : Receive(fr)
    \/ \E i \in FrameIds : \E reply \in {"ok", "status", "error"} : RefreshReplies(i, reply)

SpecRefresh == Init /\ [][NextRefresh]_vars /\ WF_vars(RefreshProgress)

\* ------------------------------------------------------------- the history
\* the frames the peer sends here: a call_details frame whose dynamic
\* variables have no user name, and a request
HistoryFrames ==
    {Frame("call_details", NoId, FALSE, Details(Call("call_1", TRUE, ""), Missing, Missing, Missing)),
     Frame("response_required", 1, TRUE, NoCall)}

NextHistory ==
    \/ Accept
    \/ Heartbeat
    \/ HeartbeatTimer
    \/ \E fr \in HistoryFrames : Receive(fr)
    \/ PeerCloses
    \/ ReceiveDisconnect
    \/ \E f \in FrameIds : HandleMessage(f)
    \/ \E f \in FrameIds : HandleMessageResumes(f)
    \/ \E f \in FrameIds : StartResponse(f, FALSE)
    \/ \E f \in FrameIds : \E e \in Replies(gen[f], {TextChunk}, {}, MaxChunks) : StepResponse(f, e)
    \/ \E f \in FrameIds : Cancelled(f)
    \/ Teardown

SpecHistory == Init /\ [][NextHistory]_vars

\* ------------------------------------------------------------ the loops
\* the frames the peer sends here: a request, a frame with no
\* interaction_type, a request without response_id, a request without
\* transcript
LoopFrames ==
    {Frame("response_required", 1, TRUE, NoCall), Frame("", 1, TRUE, NoCall),
     Frame("response_required", NoId, TRUE, NoCall),
     Frame("response_required", MaxId, FALSE, NoCall)}

NextLoop ==
    \/ Accept
    \/ Heartbeat
    \/ HeartbeatTimer
    \/ \E fr \in LoopFrames : Receive(fr)
    \/ ReceiveMalformed
    \/ ReceiveTimeout
    \/ PeerCloses
    \/ ReceiveDisconnect
    \/ \E f \in FrameIds : HandleMessage(f)
    \/ \E f \in FrameIds : HandleMessageResumes(f)
    \/ \E f \in FrameIds : \E fault \in BOOLEAN : StartResponse(f, fault)
    \/ \E f \in FrameIds : \E e \in Replies(gen[f], ModelChunks, {"toolwait"}, MaxChunks) : StepResponse(f, e)
    \/ \E f \in FrameIds : StepTools(f)
    \/ \E f \in FrameIds : Cancelled(f)
    \/ Teardown

SpecLoop == Init /\ [][NextLoop]_vars

\* ------------------------------------------------------------ the bursts
\* the frames that arrive together here: a request, the call details, a
\* ping_pong frame
BurstFrames ==
    {Frame("response_required", 1, TRUE, NoCall),
     Frame("call_details", NoId, FALSE, Call("call_1", TRUE, "")),
     Stamped(Frame("ping_pong", NoId, FALSE, NoCall), 1)}

NextBurst ==
    \/ Accept
    \/ Heartbeat
    \/ HeartbeatTimer
    \/ \E fr \in BurstFrames : Receive(fr)
    \/ \E fr \in BurstFrames : ReceiveQueued(fr)
    \/ \E closed \in BOOLEAN : ReceiveQueuedBreaks(closed)
    \/ PeerCloses
    \/ ReceiveDisconnect
    \/ \E f \in FrameIds : HandleMessage(f)
    \/ \E f \in FrameIds : HandleMessageResumes(f)
    \/ \E f \in FrameIds : StartResponse(f, FALSE)
    \/ \E f \in FrameIds : \E e \in Replies(gen[f], ModelChunks, {}, MaxChunks) : StepResponse(f, e)
    \/ \E f \in FrameIds : StepTools(f)
    \/ \E f \in FrameIds : Cancelled(f)
    \/ Teardown

SpecBurst == Init /\ [][NextBurst]_vars

\* ------------------------------------------------------- one generation
\* The connection has been accepted, the heartbeat has sent its first ping,
\* one request has been received and handle_message has created its task.
InitGen ==
    /\ impl \in {"src/llm.py", "llm.py"}
    /\ ready = <<H(1)>>
    /\ mainPc = "recv"
    /\ hbPc = "run"
    /\ hbCancel = FALSE
    /\ pings = 1
    /\ ws = "open"
    /\ frames = <<Frame("response_required", 1, TRUE, NoCall)>>
    /\ msg = [f \in FrameIds |-> IF f = 1 THEN "await" ELSE "none"]
    /\ gen = [f \in FrameIds |-> IF f = 1 THEN [GenIdle EXCEPT !.pc = "new"] ELSE GenIdle]
    /\ response_id = 0
    /\ active_tasks = {1}
    /\ gathering = {}
    /\ wire = <<ConfigFrame>>
    /\ session = NewSession
    /\ cl = NewCleanup
    /\ tool = NoTool
    /\ conns = NoConns
    /\ log = <<>>

\* the deltas of a streamed tool call: an index, a piece of the name or none,
\* a piece of the argument string or none
NamePieces == {<<>>, <<"Places">>, <<"Search">>}
ArgumentPieces == {<<>>, <<"{">>, <<"}">>, <<"{", "k", "}">>}
ToolDeltas ==
    {Delta(i, IF i = 0 THEN "call_0" ELSE "call_1", n, a) :
        i \in {0, 1}, n \in NamePieces, a \in ArgumentPieces}
\* a second whole tool call, for the index after the first
SecondToolChunk == Chunk(FALSE, <<Delta(1, "call_1", <<"Places", "Search">>, <<"{", "k", "}">>)>>)
StreamChunks ==
    {TextChunk, ToolChunk, SecondToolChunk} \cup {Chunk(FALSE, <<d>>) : d \in ToolDeltas}

NextGen ==
    \/ \E fault \in BOOLEAN : StartResponse(1, fault)
    \/ \E e \in Replies(gen[1], StreamChunks, Waiting, MaxDeltas) : StepResponse(1, e)
    \/ StepTools(1)
    \/ HandleMessageResumes(1)

SpecGen == InitGen /\ [][NextGen]_vars

\* -------------------------------------------------------- the tool phase
\* the chunks of a first stream here: one whole tool call, a second one
ToolPhaseChunks == {ToolChunk, SecondToolChunk}

NextToolPhase ==
    \/ Accept
    \/ Heartbeat
    \/ \E fr \in RequestFrames : Receive(fr)
    \/ PeerCloses
    \/ \E f \in FrameIds : HandleMessage(f)
    \/ \E f \in FrameIds : HandleMessageResumes(f)
    \/ \E f \in FrameIds : StartResponse(f, FALSE)
    \/ \E f \in FrameIds :
          \E e \in Replies(gen[f], ToolPhaseChunks, {"toolwait"}, MaxDeltas) : StepResponse(f, e)
    \/ \E f \in FrameIds : StepTools(f)

SpecToolPhase == Init /\ [][NextToolPhase]_vars

\* ------------------------------------------------------------- the prompt
\* The connection has been accepted and has received one request, after no
\* call_details frame or after one that was greeted; handle_message has
\* created the task of the request.
MaxUtterances == 2
Utterances ==
    {Utterance(role, <<content>>) : role \in {"agent", "user", "system"}, content \in {"a", "b"}}
Transcripts ==
    UNION {[1..n -> Utterances] : n \in 0..MaxUtterances}
PromptRequests ==
    {Said(Frame(kind, 1, TRUE, NoCall), t) : kind \in GenerationKinds, t \in Transcripts}
PromptDetails ==
    Frame("call_details", NoId, FALSE, Details(Call("call_1", TRUE, ""), Missing, Missing, Missing))

InitPrompt ==
    /\ impl \in {"src/llm.py", "llm.py"}
    /\ mainPc = "recv"
    /\ hbPc = "run"
    /\ hbCancel = FALSE
    /\ pings = 1
    /\ ws = "open"
    /\ response_id = 0
    /\ gathering = {}
    /\ cl = NewCleanup
    /\ tool = NoTool
    /\ conns = NoConns
    /\ log = <<>>
    /\ \E request \in PromptRequests :
          \/ /\ frames = <<request>>
             /\ session = NewSession
             /\ wire = <<ConfigFrame>>
          \/ \E greeting \in Greetings(SetMetadata(NewSession, PromptDetails.call).metadata, 9, impl) :
                /\ frames = <<PromptDetails, request>>
                /\ session = DraftBeginMessage(SetMetadata(NewSession, PromptDetails.call), greeting)
                /\ wire = <<ConfigFrame, Response(0, greeting, TRUE, 1)>>
    /\ msg = [f \in FrameIds |-> IF f < Len(frames) THEN "done"
                                 ELSE IF f = Len(frames) THEN "await" ELSE "none"]
    /\ gen = [f \in FrameIds |-> IF f = Len(frames) THEN [GenIdle EXCEPT !.pc = "new"] ELSE GenIdle]
    /\ active_tasks = {Len(frames)}
    /\ ready = <<H(Len(frames))>>

NextPrompt ==
    \/ \E f \in FrameIds : \E fault \in BOOLEAN : StartResponse(f, fault)
    \/ \E f \in FrameIds : \E e \in Replies(gen[f], {TextChunk}, {}, MaxChunks) : StepResponse(f, e)
    \/ \E f \in FrameIds : HandleMessageResumes(f)

SpecPrompt == InitPrompt /\ [][NextPrompt]_vars

\* ------------------------------------------------------- the backend tools
\* BookingRequest, CallRequest and MessageRequest of models.py: execute()
\* validates its fields, posts one request to the backend and maps the status
\* of the reply.  A time is a count of hours; a time field is text, either
\* <<day, hour>> in ISO format or text that is no ISO time.
HoursPerDay == 24
MaxDay == 4
Today == 1
IsoTexts == {<<d, h>> : d \in 0..MaxDay, h \in {0, 14, 23}} \cup {<<>>}
\* datetime.fromisoformat accepts the text
IsIso(text) == Len(text) = 2
\* datetime.fromisoformat and datetime.isoformat
fromisoformat(text) == text[1] * HoursPerDay + text[2]
isoformat(dt) == <<dt \div HoursPerDay, dt % HoursPerDay>>
\* datetime.date
date(dt) == dt \div HoursPerDay
\* CallRequest.execute: the dates a call may be scheduled on, today only
AllowedDatesTodayOnly(now) == {date(now)}
\* CallRequest.execute: the dates a call may be scheduled on
AllowedDates(now) == {date(now), date(now + HoursPerDay)}

BackendTools == {<<"Booking", "Request">>, <<"Call", "Request">>, <<"Message", "Request">>}
\* the endpoint each tool posts to
Endpoint(name) ==
    CASE name = <<"Booking", "Request">> -> "/book_appointment"
      [] name = <<"Call", "Request">> -> "/initiate_call"
      [] OTHER -> "/send_message"
\* the statuses each execute() returns the reply's payload for
Returned(name) ==
    IF name = <<"Booking", "Request">> THEN {202, 300, 404} ELSE {200, 202, 300, 404}
\* the JSON body the backend sends with a status
Payload(status) == <<"response_data", status>>
Statuses == {200, 202, 300, 404, 500}

\* execute() has been called on a tool built from the model's arguments
InitTool ==
    /\ impl \in {"src/llm.py", "llm.py"}
    /\ ready = <<H(1)>>
    /\ mainPc = "recv"
    /\ hbPc = "run"
    /\ hbCancel = FALSE
    /\ pings = 1
    /\ ws = "open"
    /\ frames = <<Frame("response_required", 1, TRUE, NoCall)>>
    /\ msg = [f \in FrameIds |-> IF f = 1 THEN "await" ELSE "none"]
    /\ gen = [f \in FrameIds |-> IF f = 1 THEN [GenIdle EXCEPT !.pc = "new"] ELSE GenIdle]
    /\ response_id = 0
    /\ active_tasks = {1}
    /\ gathering = {}
    /\ wire = <<ConfigFrame>>
    /\ session = NewSession
    /\ cl = NewCleanup
    /\ \E name \in BackendTools, text \in IsoTexts, h \in {0, 23} :
          /\ name = <<"Message", "Request">> => text = <<>>
          /\ tool = [NoTool EXCEPT !.name = name, !.time = text,
                                   !.now = Today * HoursPerDay + h, !.pc = "new"]
    /\ conns = NoConns
    /\ log = <<>>

\* execute() up to its request: the time field is parsed (booking and call),
\* the call's date is validated, and the payload is posted
ToolExecutes ==
    /\ tool.pc = "new"
    /\ tool' =
          IF tool.name = <<"Message", "Request">>
          THEN [tool EXCEPT !.pc = "post",
                            !.posts = Append(@, [url |-> Endpoint(tool.name), time |-> <<>>])]
          ELSE IF ~IsIso(tool.time)
               THEN [tool EXCEPT !.pc = "raised", !.error = "fromisoformat"]
               ELSE LET dt == fromisoformat(tool.time)
                    IN  IF /\ tool.name = <<"Call", "Request">>
                           /\ date(dt) \notin AllowedDates(tool.now)
                        THEN [tool EXCEPT !.pc = "raised", !.error = "validation"]
                        ELSE [tool EXCEPT !.pc = "post",
                                          !.posts = Append(@, [url |-> Endpoint(tool.name),
                                                               time |-> isoformat(dt)])]
    /\ UNCHANGED <<impl, conns, ready, mainPc, hbPc, hbCancel, pings, ws, frames, msg, gen,
                   response_id, active_tasks, gathering, wire, session, cl, log>>

\* the backend's reply: its payload is returned or a ValueError is raised
ToolReplied(status) ==
    /\ tool.pc = "post"
    /\ tool' =
          IF status \in Returned(tool.name)
          THEN [tool EXCEPT !.pc = "returned", !.status = status, !.result = Payload(status)]
          ELSE [tool EXCEPT !.pc = "raised", !.status = status, !.error = "status"]
    /\ UNCHANGED <<impl, conns, ready, mainPc, hbPc, hbCancel, pings, ws, frames, msg, gen,
                   response_id, active_tasks, gathering, wire, session, cl, log>>

NextTool ==
    \/ ToolExecutes
    \/ \E status \in Statuses : ToolReplied(status)

SpecTool == InitTool /\ [][NextTool]_vars

\* ------------------------------------------------- the time of the day
\* get_time_based_greeting is called at some hour of some day
InitClock ==
    /\ impl \in {"src/llm.py", "llm.py"}
    /\ ready = <<M(1)>>
    /\ mainPc = "recv"
    /\ hbPc = "run"
    /\ hbCancel = FALSE
    /\ pings = 1
    /\ ws = "open"
    /\ frames = <<Frame("call_details", NoId, FALSE, Call("call_1", FALSE, ""))>>
    /\ msg = [f \in FrameIds |-> IF f = 1 THEN "new" ELSE "none"]
    /\ gen = [f \in FrameIds |-> GenIdle]
    /\ response_id = 0
    /\ active_tasks = {}
    /\ gathering = {}
    /\ wire = <<ConfigFrame>>
    /\ session = NewSession
    /\ cl = NewCleanup
    /\ \E d \in 0..MaxDay, h \in Hours :
          tool = [NoTool EXCEPT !.name = <<"get_time_based_greeting">>,
                                !.now = d * HoursPerDay + h, !.pc = "new"]
    /\ conns = NoConns
    /\ log = <<>>

\* hour = datetime.now().hour, and the greeting of its bucket is returned
TimeGreeting ==
    /\ tool.pc = "new"
    /\ tool.name = <<"get_time_based_greeting">>
    /\ tool' = [tool EXCEPT !.pc = "returned",
                            !.result = <<get_time_based_greeting(tool.now % HoursPerDay)>>]
    /\ UNCHANGED <<impl, conns, ready, mainPc, hbPc, hbCancel, pings, ws, frames, msg, gen,
                   response_id, active_tasks, gathering, wire, session, cl, log>>

SpecClock == InitClock /\ [][TimeGreeting]_vars

\* -------------------------------------------------------------- cleanup
\* The receive loop has ended, the heartbeat is cancelled and no generation
\* is in flight; the session is what zero or one call_details frame made it.
CallDetails ==
    {Call(c, v, u) : c \in {"", "call_1"}, v \in BOOLEAN, u \in {"", "7", "x"}}
DetailsFrames ==
    {Frame("call_details", NoId, FALSE, call) : call \in {c \in CallDetails : c.variables \/ c.user_id = ""}}
Records == {[summary |-> b, ms |-> ms] : b \in BOOLEAN, ms \in {999, 2500}}

InitCleanup ==
    /\ impl \in {"src/llm.py", "llm.py"}
    /\ ready = <<Main>>
    /\ mainPc = "td_cleanup"
    /\ hbPc = "done"
    /\ hbCancel = TRUE
    /\ pings = 1
    /\ ws = "down"
    /\ frames \in {<<>>} \cup {<<fr>> : fr \in DetailsFrames}
    /\ msg = [f \in FrameIds |-> IF f <= Len(frames) THEN "done" ELSE "none"]
    /\ gen = [f \in FrameIds |-> GenIdle]
    /\ response_id = 0
    /\ active_tasks = {}
    /\ gathering = {}
    /\ \E greeting \in
           (IF frames # <<>> /\ MetadataOk(frames[1].call)
            THEN UNION {Greetings(SetMetadata(NewSession, frames[1].call).metadata, hour, impl) :
                           hour \in Hours}
            ELSE {<<>>}) :
          /\ wire = IF frames = <<>> THEN <<ConfigFrame>>
                    ELSE IF MetadataOk(frames[1].call)
                    THEN <<ConfigFrame, Response(0, greeting, TRUE, 1)>>
                    ELSE <<ConfigFrame, Response(0, "hm_error", TRUE, 1)>>
          /\ session = IF frames = <<>> THEN NewSession
                       ELSE IF MetadataOk(frames[1].call)
                       THEN DraftBeginMessage(SetMetadata(NewSession, frames[1].call), greeting)
                       ELSE SetMetadata(NewSession, frames[1].call)
    /\ cl \in {[NewCleanup EXCEPT !.record = r] : r \in Records}
    /\ tool = NoTool
    /\ conns = NoConns
    /\ log = <<"cancel_heartbeat">>

NextCleanup ==
    \/ CleanupStarts
    \/ AnalysisReady
    \/ \E r \in FetchReplies(cl.record) : CleanupFetched(r)
    \/ CleanupRetries
    \/ \E r \in {Reply("http", 201, FALSE, 0), Reply("http", 500, FALSE, 0),
                 Reply("error", 0, FALSE, 0)} : CleanupPosted(r)
    \/ \E raises \in BOOLEAN : CleanupCloses(raises)
    \/ Close

SpecCleanup == InitCleanup /\ [][NextCleanup]_vars

\* every request of cleanup is answered or raises, and its sleep ends
SpecCleanupLive == SpecCleanup /\ WF_vars(NextCleanup)

\* =============================================================== claims
\* frame f is a response_required or reminder_required request
IsRequest(f) == f \in 1..Len(frames) /\ frames[f].kind \in GenerationKinds

\* every frame received is a request and their response ids strictly increase
IncreasingRequests ==
    /\ \A f \in 1..Len(frames) : IsRequest(f)
    /\ \A i, j \in 1..Len(frames) : i < j => frames[i].rid < frames[j].rid

\* the positions on the wire of the complete frames sent for request f
CompleteFrames(f) ==
    {i \in 1..Len(wire) : /\ wire[i].type = "response"
                          /\ wire[i].by = f
                          /\ wire[i].rid = gen[f].rid
                          /\ wire[i].complete}

\* the positions on the wire of the frames sent for request f
FramesOf(f) == {i \in 1..Len(wire) : wire[i].type = "response" /\ wire[i].by = f}

\* C1: when the requests of a connection carry strictly increasing response
\* ids, no response frame for a lower id follows a response frame for a
\* higher id on the websocket.
C1_NoLowerAfterHigher ==
    IncreasingRequests =>
        \A i, j \in 1..Len(wire) :
            (i < j /\ wire[i].type = "response" /\ wire[j].type = "response")
                => wire[j].rid >= wire[i].rid

\* two requests, the first one cut short by the second after it had sent a frame
C1_Witness ==
    /\ IncreasingRequests
    /\ Len(frames) = 2
    /\ gen[1].pc = "abandoned"
    /\ \E i, j \in 1..Len(wire) :
           /\ i < j
           /\ wire[i].type = "response" /\ wire[i].by = 1
           /\ wire[j].type = "response" /\ wire[j].by = 2

\* C2 as stated: every generation cycle that handle_response_required started
\* and that is over has sent exactly one complete frame for its response id.
C2_EveryCycleOneComplete ==
    \A f \in FrameIds :
        (gen[f].rid # NoId /\ gen[f].pc \in Finished) => Cardinality(CompleteFrames(f)) = 1

\* C2: a generation cycle whose generator was consumed to its end with every
\* send succeeding has sent exactly one complete frame for its response id,
\* as its last frame, whether it streamed text only, ran tool calls or hit an
\* error; a cycle that was superseded, cancelled, or whose send failed has
\* sent none; no cycle sends more than one.
C2_OneCompleteWhenConsumed ==
    \A f \in FrameIds :
        /\ Cardinality(CompleteFrames(f)) <= 1
        /\ gen[f].pc = "done" =>
              /\ Cardinality(CompleteFrames(f)) = 1
              /\ \A i \in FramesOf(f) : \A j \in CompleteFrames(f) : i <= j
        /\ gen[f].pc \in Finished \ {"done"} => CompleteFrames(f) = {}

\* a cycle that ran a tool call, met an error and came to its end
C2_Witness ==
    \E f \in FrameIds :
        gen[f].pc = "done" /\ gen[f].faults # <<>> /\ gen[f].invoked # <<>>

\* C3: no response frame is sent for an id lower than the connection's latest
\* response id at the time of the send.
C3_NoFrameForSuperseded ==
    [][\A i \in (Len(wire) + 1)..Len(wire') :
          wire'[i].type = "response" => wire'[i].rid >= response_id']_vars

\* C7: while a generation is running and the connection is open, the receive
\* loop is where it takes the next frame: no generation in progress disables
\* the receipt of a further request.
C7_ReceiveNotBlocked ==
    (/\ \E f \in FrameIds : gen[f].pc \in Waiting
     /\ mainPc = "recv" /\ ws = "open" /\ Idle /\ Len(frames) < MaxFrames)
        => \A fr \in RequestFrames : ENABLED Receive(fr)

\* a newer request has sent a frame while the cycle of the earlier one is
\* still waiting for the model
C7_Witness ==
    /\ Len(frames) = 2 /\ IsRequest(1) /\ IsRequest(2)
    /\ frames[1].rid < frames[2].rid
    /\ gen[1].pc \in Waiting
    /\ FramesOf(2) # {}

\* the place of a teardown step in the order of the finally block
StepRank(step) ==
    CASE step = "cancel_heartbeat" -> 1
      [] step = "cancel_tasks" -> 2
      [] step = "cleanup" -> 3
      [] step = "cleanup_done" -> 4
      [] step = "close" -> 5

\* where websocket_handler is once llm_client.cleanup() has been entered
InCleanup == {"cl_get", "cl_sleep", "cl_post", "cl_close"}
AfterCleanup == {"td_close", "done", "raised"}

\* C8: the teardown steps are taken in the order heartbeat cancellation,
\* cancellation of the generation tasks, cleanup, close; from the start of
\* cleanup on the heartbeat is over and no generation task is unfinished.
C8_TeardownOrder ==
    /\ \A i, j \in 1..Len(log) : i < j => StepRank(log[i]) < StepRank(log[j])
    /\ (log # <<>> => log[1] = "cancel_heartbeat")
    /\ (ws = "closed" => \E i \in 1..Len(log) : log[i] = "cleanup_done")
    /\ (mainPc \in InCleanup \cup AfterCleanup =>
           /\ hbPc = "done"
           /\ gathering = {}
           /\ \A f \in FrameIds : gen[f].pc \in Finished \cup {"none"})

\* a connection closed after teardown cancelled a generation in progress
C8_Witness ==
    /\ mainPc = "done" /\ ws = "closed"
    /\ \E f \in FrameIds : gen[f].pc = "cancelled" /\ gen[f].rid # NoId

\* C9: no exception leaves the finally block of websocket_handler before
\* websocket.close() was reached.
C9_TeardownNeverRaises == mainPc # "raised"

\* ---------------------------------------------------- claims: generation
\* the number of complete fragments among those the generator yielded
RECURSIVE CompleteYields(_)
CompleteYields(ys) ==
    IF ys = <<>> THEN 0
    ELSE (IF Head(ys).complete THEN 1 ELSE 0) + CompleteYields(Tail(ys))

\* the generator's top-level handler ran: a fault elsewhere than in the
\* parse or the execution of a tool call
Handled(g) == \E i \in 1..Len(g.faults) : g.faults[i] # "tool"

\* the generator ended with exactly one complete fragment, the apology, last
EndsInApology(g) ==
    /\ g.yielded # <<>>
    /\ g.yielded[Len(g.yielded)] = [content |-> "apology", complete |-> TRUE]
    /\ CompleteYields(g.yielded) = 1
    /\ g.pc \in {"done", "abandoned"}

\* C4 as stated: a cycle in which any exception was raised, the tool phase
\* included, ends with the apology as its one complete and last fragment.
C4_AnyExceptionApology ==
    \A f \in FrameIds :
        (gen[f].faults # <<>> /\ gen[f].pc \in {"done", "abandoned"}) => EndsInApology(gen[f])

\* C4: an exception raised in draft_response outside the parse and execution
\* of a tool call (prompt assembly, a model call, the iteration of a stream)
\* ends the generator with exactly one complete fragment, the apology, as the
\* last item yielded, and nothing is raised to handle_response_required; an
\* exception in the parse or execution of a tool call is not turned into an
\* apology.
C4_HandledExceptionApology ==
    \A f \in FrameIds :
        /\ Handled(gen[f]) => EndsInApology(gen[f])
        /\ gen[f].pc \notin {"raised", "failed"}
        /\ ~Handled(gen[f]) =>
              \A i \in 1..Len(gen[f].yielded) : gen[f].yielded[i].content # "apology"

\* the follow-up model call raised after a tool call had failed
C4_Witness ==
    \E f \in FrameIds :
        /\ gen[f].pc = "done"
        /\ gen[f].faults = <<"tool", "create2">>

\* C5: once the tool loop is over, every accumulated tool call has exactly
\* one result entry, in order, with that call's id.
C5_OneResultPerToolCall ==
    \A f \in FrameIds :
        (gen[f].tcs # <<>> /\ gen[f].k > Len(gen[f].tcs)) =>
            /\ Len(gen[f].results) = Len(gen[f].tcs)
            /\ \A i \in 1..Len(gen[f].tcs) : gen[f].results[i].tool_call_id = gen[f].tcs[i].id

\* the pieces of a field that the deltas of one index brought, concatenated
\* in arrival order
RECURSIVE Pieces(_, _, _)
Pieces(ds, index, field) ==
    IF ds = <<>> THEN <<>>
    ELSE (IF Head(ds).index = index
          THEN (IF field = "name" THEN Head(ds).name ELSE Head(ds).arguments)
          ELSE <<>>) \o Pieces(Tail(ds), index, field)

\* C6: when the name pieces of a call's index make up the name of a tool and
\* its argument pieces a string that parses, the tool invoker is called with
\* the concatenation of the name pieces and with the parse of the
\* concatenation of the argument pieces.
C6_Reassembled ==
    \A f \in FrameIds :
        \A j \in 1..Len(gen[f].invoked) :
            LET inv == gen[f].invoked[j]
                name == Pieces(gen[f].deltas, inv.k - 1, "name")
                arguments == Pieces(gen[f].deltas, inv.k - 1, "arguments")
            IN  (name \in Dispatched(impl) /\ ParseOk(arguments)) =>
                    (inv.name = name /\ inv.args = JsonLoads(arguments))

\* ------------------------------------------------------- claims: cleanup
\* llm_client.cleanup() is over
CleanupOver == mainPc \in {"td_close", "done", "raised"}

\* C10 as stated: cleanup on a session with a call id whose call record has a
\* summary makes exactly one POST, with the duration of the record in seconds.
C10_CallIdAndSummary ==
    (CleanupOver /\ cl.call_id # "" /\ cl.analysed) =>
        /\ Len(cl.posts) = 1
        /\ cl.posts[1].duration = cl.record.ms \div 1000

\* C10: cleanup on a session with a call id and metadata with a numeral user
\* id, whose call record has a summary and is fetched without a failure,
\* makes exactly one POST, with that call id and the whole seconds of the
\* record's duration_ms; cleanup never makes more than one POST, and makes
\* none for a session without call id, metadata or numeral user id.
C10_OnePostWhenFetched ==
    /\ Len(cl.posts) <= 1
    /\ \A i \in 1..Len(cl.posts) :
          /\ cl.eligible /\ Numeral(cl.user_id)
          /\ cl.posts[i].call_id = cl.call_id
          /\ cl.posts[i].duration = cl.record.ms \div 1000
    /\ (CleanupOver /\ cl.eligible /\ Numeral(cl.user_id) /\ cl.analysed /\ ~cl.failed)
          => Len(cl.posts) = 1

\* a record of two and a half seconds was posted as two seconds
C10_Witness ==
    /\ CleanupOver
    /\ cl.eligible /\ cl.analysed /\ ~cl.failed
    /\ Len(cl.posts) = 1
    /\ cl.record.ms = 2500
    /\ cl.posts[1].duration = 2

Faulted(f) ==
    \/ frames[f].kind = ""
    \/ /\ frames[f].kind \in GenerationKinds
       /\ frames[f].rid = NoId \/ ~frames[f].transcript

\* the complete frames sent for frame f that carry the frame's response id
ApologiesFor(f) ==
    {i \in FramesOf(f) : wire[i].complete /\ wire[i].rid = DataRid(frames[f])}

\* C12: once the handling of a faulted frame is over on an open websocket,
\* exactly one complete response frame with the frame's response id has
\* been sent for it.
C12_FaultApology ==
    \A f \in 1..Len(frames) :
        (Faulted(f) /\ msg[f] = "done" /\ ws = "open") => Cardinality(ApologiesFor(f)) = 1

\* an undecodable frame was received
GotMalformed == \E f \in 1..Len(frames) : frames[f] = Malformed

\* C13: while the websocket is open and receive_json has not raised on an
\* undecodable frame, the receive loop is receiving and the heartbeat is
\* running, whatever faults frame handling, generation or tools have met.
C13_LoopsSurviveFaults ==
    (ws = "open" /\ ~GotMalformed) => (mainPc = "recv" /\ hbPc = "run")

\* after a faulted frame and a generation whose tool failed, both loops go on
C13_Witness ==
    /\ ws = "open" /\ mainPc = "recv" /\ hbPc = "run"
    /\ Len(frames) = 2
    /\ Faulted(1) /\ msg[1] = "done"
    /\ gen[2].pc = "done" /\ gen[2].faults # <<>>

\* C14: after an undecodable frame the receive loop is still receiving,
\* unless the peer has gone.
C14_MalformedKeepsLoop ==
    GotMalformed => (mainPc = "recv" \/ ws = "down")

\* C15 as stated: the heartbeat is never over while the receive loop is
\* still serving the connection.
C15_HeartbeatWhileServed ==
    hbPc = "done" => mainPc # "recv"

\* C15: the heartbeat ends only when teardown has cancelled it or when the
\* websocket no longer takes its ping; while the websocket is open and the
\* loop receives, the heartbeat runs and its next ping is due.
C15_HeartbeatUntilCancelledOrDead ==
    /\ hbPc = "done" => (hbCancel \/ ws # "open")
    /\ (mainPc = "recv" /\ ws = "open") => hbPc = "run"
    /\ (mainPc = "recv" /\ ws = "open" /\ Idle /\ pings <= MaxBeats) => ENABLED HeartbeatTimer

\* with no inbound frame the heartbeat has sent every ping of its rounds
C15_Witness ==
    /\ frames = <<>> /\ mainPc = "recv" /\ ws = "open"
    /\ hbPc = "run" /\ pings = MaxBeats + 1

\* C16: a receive timeout sends one probe and leaves the loop receiving when
\* the websocket is open; when the send fails nothing is sent and
\* websocket_handler is in its finally block.
C16_ProbeOnTimeout ==
    [][ReceiveTimeout =>
          IF ws = "open"
          THEN wire' = Append(wire, Probe) /\ mainPc' = "recv"
          ELSE wire' = wire /\ mainPc' = "td_hb" /\ ready' = <<Main>>]_vars

\* a probe went out, and the loop then received a frame and answered it
C16_Witness ==
    /\ Len(frames) = 1 /\ frames[1].kind = ""
    /\ Len(wire) = 3 /\ wire[2] = Probe /\ wire[3].by = 1

\* C17: the connection's latest response id never decreases, whatever the
\* order of the response ids that inbound requests carry
C17_LatestNeverDecreases == [][response_id' >= response_id]_vars

\* the positions on the wire of the response frames that carry response id rid
FramesFor(rid) == {i \in 1..Len(wire) : wire[i].type = "response" /\ wire[i].rid = rid}

\* no two inbound frames carry the same response id
DistinctIds ==
    \A i, j \in 1..Len(frames) : i # j => DataRid(frames[i]) # DataRid(frames[j])

\* C18 as stated: the response frames of each response id are zero or more
\* frames with content_complete=false followed by exactly one frame with
\* content_complete=true (once the cycle of that id is over), and no frame for
\* that id follows its complete frame.
C18_OneCompleteLastPerId ==
    \A rid \in 0..MaxId :
        /\ \A i, j \in FramesFor(rid) : i < j => ~wire[i].complete
        /\ (\E f \in FrameIds : gen[f].rid = rid /\ gen[f].pc \in Finished)
              => \E i \in FramesFor(rid) : wire[i].complete

\* C18: the response frames sent for one inbound frame are zero or more
\* frames with content_complete=false followed by at most one frame with
\* content_complete=true, which is there when the generator was consumed to
\* its end, and nothing is sent for that inbound frame after it; this is the
\* pattern of a response id when no two inbound frames carry the same id.
C18_PatternPerCycle ==
    /\ \A f \in FrameIds : \A i, j \in FramesOf(f) : i < j => ~wire[i].complete
    /\ \A f \in FrameIds :
          gen[f].pc = "done" => \E i \in FramesOf(f) : wire[i].complete
    /\ DistinctIds =>
          \A rid \in 0..MaxId : \A i, j \in FramesFor(rid) : i < j => ~wire[i].complete

\* two requests with different ids served to their ends, one of them with an
\* incomplete frame before its complete one
C18_Witness ==
    /\ Len(frames) = 2 /\ DistinctIds
    /\ \A f \in 1..2 : gen[f].pc = "done"
    /\ \E f \in 1..2 : Cardinality(FramesOf(f)) >= 2

\* a text has this piece
Contains(text, piece) == \E i \in DOMAIN text : text[i] = piece

\* the last greeting drafted and the metadata it was drafted with
LastGreeting == session.message_history[Len(session.message_history)].content
UserName == Get(session.metadata.user_name, "")

IsGeneric(text) ==
    \E hour \in Hours : text \in Choices(custom_wait_variants(get_time_based_greeting(hour)))
IsOnboarding(text) ==
    \E hour \in Hours :
        text \in Choices(FirstGreetings(get_time_based_greeting(hour), UserName,
                                        BotName(session.metadata, impl)))
IsContextual(text) ==
    \E hour \in Hours :
        text \in Choices(custom_greeting(session.metadata, get_time_based_greeting(hour), impl))

\* C19 as stated: without metadata the greeting is a generic one; with metadata
\* and the first-interaction flag it is an onboarding greeting that contains
\* the assistant's configured name; with metadata, no flag and a user name it
\* is a contextual greeting that contains the user name.
C19_GreetingPriority ==
    session.message_history # <<>> =>
        /\ ~session.metadata.present => IsGeneric(LastGreeting)
        /\ (session.metadata.present /\ FirstInteraction(session.metadata, impl)) =>
              /\ IsOnboarding(LastGreeting)
              /\ Contains(LastGreeting, BotName(session.metadata, impl))
        /\ (/\ session.metadata.present
            /\ ~FirstInteraction(session.metadata, impl)
            /\ UserName # "") =>
              /\ IsContextual(LastGreeting)
              /\ Contains(LastGreeting, UserName)

\* C19: without metadata the greeting is a generic one; with metadata and no
\* user name it is one of the configured opening lines, flag or no flag; with
\* metadata and a user name it is, with the first-interaction flag, an
\* onboarding greeting that contains the assistant's name and the user name
\* and, without the flag, a contextual greeting that contains the user name.
C19_GreetingByNameThenFlag ==
    session.message_history # <<>> =>
        /\ ~session.metadata.present => IsGeneric(LastGreeting)
        /\ (session.metadata.present /\ UserName = "") =>
              LastGreeting \in Choices(opening_lines)
        /\ (/\ session.metadata.present
            /\ UserName # ""
            /\ FirstInteraction(session.metadata, impl)) =>
              /\ IsOnboarding(LastGreeting)
              /\ Contains(LastGreeting, BotName(session.metadata, impl))
              /\ Contains(LastGreeting, UserName)
        /\ (/\ session.metadata.present
            /\ UserName # ""
            /\ ~FirstInteraction(session.metadata, impl)) =>
              /\ IsContextual(LastGreeting)
              /\ Contains(LastGreeting, UserName)

\* a first call without user name, greeted with an opening line, and a second
\* one with user name and bot_name, greeted with an onboarding greeting
C19_Witness ==
    /\ impl = "src/llm.py"
    /\ Len(frames) = 2 /\ Len(session.message_history) = 2
    /\ frames[1].call.first_interaction = "true" /\ frames[1].call.user_name = Missing
    /\ session.message_history[1].content \in Choices(opening_lines)
    /\ FirstInteraction(session.metadata, impl)
    /\ IsOnboarding(LastGreeting)
    /\ Contains(LastGreeting, "Max") /\ Contains(LastGreeting, "Ada")

\* the call_details frames whose handle_message has called draft_begin_message
Greeted ==
    {f \in 1..Len(frames) :
        msg[f] = "done" /\ frames[f].kind = "call_details" /\ MetadataOk(frames[f].call)}

\* C20: each call of draft_begin_message has added its greeting to
\* message_history as one assistant message and has returned one fragment
\* with that text, content_complete=true and end_call=false, the one frame
\* handle_message then sent: greetings in message_history and greeting frames
\* on the wire are as many as the calls, in the same order, with the same text.
C20_OneCompleteGreeting ==
    /\ Len(session.message_history) = Cardinality(Greeted)
    /\ Cardinality({i \in 1..Len(wire) : wire[i].type = "response"})
          = Len(session.message_history)
    /\ \A k \in 1..Len(session.message_history) :
          /\ session.message_history[k].role = "assistant"
          /\ wire[k + 1] = [type |-> "response", rid |-> 0,
                            content |-> session.message_history[k].content,
                            complete |-> TRUE, by |-> k, end_call |-> FALSE]

\* two call_details frames, each greeted with one frame whose text is in
\* message_history
C20_Witness ==
    /\ Len(frames) = 2 /\ msg[1] = "done" /\ msg[2] = "done"
    /\ Len(session.message_history) = 2
    /\ Len(wire) = 3
    /\ \A f \in 1..2 :
          /\ wire[f + 1].type = "response" /\ wire[f + 1].by = f
          /\ wire[f + 1].complete /\ ~wire[f + 1].end_call
          /\ wire[f + 1].content = session.message_history[f].content

\* the call_details frames handled so far that carry a call id / dynamic variables
WithCallId == {f \in 1..Len(frames) : /\ msg[f] = "done"
                                      /\ frames[f].kind = "call_details"
                                      /\ frames[f].call.call_id # ""}
WithVariables == {f \in 1..Len(frames) : /\ msg[f] = "done"
                                         /\ frames[f].kind = "call_details"
                                         /\ frames[f].call.variables}
First(S) == CHOOSE f \in S : \A g \in S : f <= g

\* C21: call_id is the one the first call_details event gave and metadata is
\* the one the first call_details event with dynamic variables gave: a later
\* call_details event leaves both unchanged.
C21_SetOnce ==
    /\ WithCallId # {} => session.call_id = frames[First(WithCallId)].call.call_id
    /\ WithVariables # {} =>
          session.metadata = SetMetadata(NewSession, frames[First(WithVariables)].call).metadata

\* s is t or the beginning of t
IsPrefix(s, t) == Len(s) <= Len(t) /\ \A i \in 1..Len(s) : t[i] = s[i]

\* a greeting draft_begin_message can choose for one of the call_details
\* frames among those received
IsGreeting(text, received) ==
    \E f \in 1..Len(received) :
        /\ received[f].kind = "call_details"
        /\ \E hour \in Hours :
              text \in Greetings(SetMetadata(NewSession, received[f].call).metadata, hour, impl)

\* C22: every step leaves message_history as it was or longer by entries at its
\* end, except a step of cleanup that empties it; whenever it has entries the
\* first one is the opening greeting, an assistant message.
C22_AppendOnly ==
    [][/\ \/ IsPrefix(session.message_history, session'.message_history)
          \/ (session'.message_history = <<>> /\ mainPc' \in InCleanup)
       /\ session'.message_history # <<>> =>
             /\ session'.message_history[1].role = "assistant"
             /\ IsGreeting(session'.message_history[1].content, frames')]_vars

\* a connection that was greeted, served a generation cycle to its end with
\* the greeting still the only entry, and whose cleanup then emptied the history
C22_Witness ==
    /\ mainPc = "done"
    /\ Len(frames) = 2
    /\ frames[1].kind = "call_details" /\ frames[2].kind = "response_required"
    /\ gen[2].pc = "done"
    /\ Len(gen[2].yielded) >= 2
    /\ \E i \in 1..Len(wire) : wire[i].type = "response" /\ wire[i].by = 1
    /\ session.message_history = <<>>

\* the generation cycles consumed to their ends
DoneCycles == {f \in FrameIds : gen[f].pc = "done"}

\* C23 as stated: every generation cycle appends to message_history, so that
\* while the connection is served the history has an entry for each cycle that
\* came to its end, besides the greetings.
C23_CycleAppends ==
    mainPc = "recv" =>
        Len(session.message_history) >= Cardinality(Greeted) + Cardinality(DoneCycles)

\* C23: no step of a generation cycle changes message_history, at a cycle
\* boundary or in mid-stream; while the connection is served the history
\* holds the greetings and nothing else.
C23_CycleLeavesHistory ==
    [][/\ gen' # gen => session'.message_history = session.message_history
       /\ mainPc' = "recv" => Len(session'.message_history) = Cardinality(Greeted)']_vars

\* a cycle streamed to its end and, after it, a greeting: the greeting is the
\* only entry of the history
C23_Witness ==
    /\ mainPc = "recv"
    /\ Len(frames) = 2
    /\ frames[1].kind = "response_required" /\ frames[2].kind = "call_details"
    /\ gen[1].pc = "done" /\ Len(gen[1].yielded) >= 2
    /\ msg[2] = "done"
    /\ Len(session.message_history) = 1

\* the requests whose prepare_prompt has returned
Prompted == {f \in 1..Len(frames) : gen[f].pc \notin {"none", "new"} /\ gen[f].prompt # <<>>}

\* C24: the prompt is one system message, then the entries of message_history
\* in order, then the utterances of the transcript in order, an agent's as
\* the assistant's and any other as the user's; one synthetic user instruction
\* ends it if and only if the request is a reminder_required.
C24_PromptOrder ==
    \A f \in Prompted :
        LET p == gen[f].prompt
            h == session.message_history
            t == frames[f].utterances
            extra == IF frames[f].kind = "reminder_required" THEN 1 ELSE 0
        IN  /\ Len(p) = 1 + Len(h) + Len(t) + extra
            /\ p[1].role = "system"
            /\ \A i \in 2..Len(p) : p[i].role \in {"assistant", "user"}
            /\ \A i \in 1..Len(h) : p[1 + i] = h[i]
            /\ \A i \in 1..Len(t) :
                  /\ p[1 + Len(h) + i].content = t[i].content
                  /\ p[1 + Len(h) + i].role = "assistant" <=> t[i].role = "agent"
            /\ extra = 1 => p[Len(p)] = ReminderInstruction(impl)

\* a reminder after a greeting, with an utterance of the agent and one that is
\* neither the agent's nor the user's
C24_Witness ==
    \E f \in Prompted :
        /\ frames[f].kind = "reminder_required"
        /\ Len(session.message_history) = 1
        /\ Len(frames[f].utterances) = 2
        /\ frames[f].utterances[1].role = "agent"
        /\ frames[f].utterances[2].role = "system"
        /\ Len(gen[f].prompt) = 5

\* the tool calls of cycle f that the tool loop has gone past, whose arguments
\* parse and whose name is none of the tools _execute_tool dispatches on
UnknownCalls(f) ==
    {k \in 1..Len(gen[f].tcs) :
        /\ k < gen[f].k
        /\ ParseOk(gen[f].tcs[k].arguments)
        /\ gen[f].tcs[k].name \notin Dispatched(impl)}

\* C26: a tool call that names no tool of the fixed set fails alone: it has an
\* error entry among the tool results, the tool calls around it are still
\* invoked, the cycle goes on to its follow-up call, and the connection stays
\* in service.
C26_UnknownToolFailsAlone ==
    \A f \in FrameIds : \A k \in UnknownCalls(f) :
        /\ \E i \in 1..Len(gen[f].results) :
              /\ gen[f].results[i].tool_call_id = gen[f].tcs[k].id
              /\ gen[f].results[i].content = "error"
        /\ \A j \in 1..Len(gen[f].tcs) :
              (j < gen[f].k /\ ParseOk(gen[f].tcs[j].arguments)) =>
                 \E i \in 1..Len(gen[f].invoked) : gen[f].invoked[i].k = j
        /\ gen[f].pc \in {"tool", "toolwait", "create2", "stream2", "done"}
        /\ ws = "open" /\ mainPc = "recv"

\* an execute() of the call tool whose call_time is ISO text has acted
CallValidated ==
    /\ tool.name = <<"Call", "Request">>
    /\ IsIso(tool.time)
    /\ tool.pc # "new"

\* C25: CallRequest.execute posts its request when the call time's calendar
\* date is today or the day after, and for any other date raises the
\* validation error with no request sent.
C25_CallDateValidated ==
    CallValidated =>
        LET ahead == tool.time[1] - tool.now \div HoursPerDay
        IN  IF ahead \in {0, 1}
            THEN /\ Len(tool.posts) = 1
                 /\ tool.posts[1] = [url |-> "/initiate_call", time |-> tool.time]
                 /\ tool.error # "validation"
            ELSE /\ tool.pc = "raised"
                 /\ tool.error = "validation"
                 /\ tool.posts = <<>>

\* a call for tomorrow, asked late today, was posted and its reply returned
C25_Witness ==
    /\ CallValidated
    /\ tool.now % HoursPerDay = 23
    /\ tool.time = <<Today + 1, 14>>
    /\ tool.pc = "returned"
    /\ tool.status = 200

\* C27: each of the booking, call and message tools returns the reply's own
\* payload for the statuses 200, 202, 300 and 404 and raises for every other
\* status.
C27_StatusFamilies ==
    (tool.name \in BackendTools /\ tool.status # 0) =>
        IF tool.status \in {200, 202, 300, 404}
        THEN tool.pc = "returned" /\ tool.result = Payload(tool.status)
        ELSE tool.pc = "raised" /\ tool.error = "status"

\* C28: once the connection is accepted the configuration frame is on the
\* wire as the first frame sent and nowhere else; no heartbeat frame is sent
\* before it; it declares auto_reconnect and call_details true and carries
\* response id 1.
C28_ConfigFirstOnce ==
    /\ mainPc = "accept" => (wire = <<>> /\ pings = 0)
    /\ pings > 0 => wire # <<>>
    /\ mainPc # "accept" =>
          /\ wire # <<>>
          /\ wire[1].type = "config"
          /\ wire[1].config.auto_reconnect = TRUE
          /\ wire[1].config.call_details = TRUE
          /\ wire[1].rid = 1
          /\ \A i \in 2..Len(wire) : wire[i].type # "config"

\* the heartbeat has sent frames and a greeting followed the configuration
C28_Witness ==
    /\ pings > 1
    /\ Len(wire) > 1
    /\ wire[1].type = "config"
    /\ wire[2].type = "response"

\* handle_message of frame f runs in this step
MessageHandled(f) == msg[f] = "new" /\ msg'[f] # "new"

\* C29: handling a ping_pong frame sends exactly one frame, a ping_pong with
\* the frame's timestamp; handling an update_only frame or a frame of a kind
\* the handler does not know sends nothing and leaves the session, the latest
\* response id and the generation tasks as they were.
C29_EchoAndIgnore ==
    [][\A f \in FrameIds :
          MessageHandled(f) =>
             /\ (frames[f].kind = "ping_pong" /\ frames[f].timestamp # NoTimestamp) =>
                   wire' = Append(wire, [type |-> "ping_pong", rid |-> NoId, content |-> "pong",
                                         complete |-> FALSE, by |-> f,
                                         timestamp |-> frames[f].timestamp])
             /\ frames[f].kind \in {"update_only", "agent_interrupt"} =>
                   /\ wire' = wire
                   /\ session' = session
                   /\ response_id' = response_id
                   /\ gen' = gen
                   /\ active_tasks' = active_tasks
                   /\ msg'[f] = "done"]_vars

\* a ping_pong frame was answered, and an update_only frame was handled
\* after it
C29_Witness ==
    /\ Len(frames) = 2
    /\ frames[1].kind = "ping_pong" /\ frames[1].timestamp = 6
    /\ frames[2].kind = "update_only"
    /\ msg[2] = "done"
    /\ Len(wire) = 2
    /\ wire[2].type = "ping_pong" /\ wire[2].by = 1

\* the session a client has after the first n of these call_details frames
\* and nothing else
RECURSIVE Replay(_, _)
Replay(received, n) ==
    IF n = 0
    THEN NewSession
    ELSE DraftBeginMessage(SetMetadata(Replay(received, n - 1), received[n].call),
                           received[n].greeting)

\* C30: every accepted connection has an LlmClient of its own, no two
\* connections have the same one, and the call_id, metadata and
\* message_history of a connection's client are what that connection's own
\* frames and teardown made them, whatever the other connections did.
C30_SessionsApart ==
    /\ \A c \in Conns :
          conns.state[c] # "none" => conns.llm_client[c] \in 1..Len(conns.objects)
    /\ \A c, d \in Conns :
          (c # d /\ conns.state[c] # "none" /\ conns.state[d] # "none") =>
             conns.llm_client[c] # conns.llm_client[d]
    /\ \A c \in Conns :
          LET own == Replay(conns.received[c], Len(conns.received[c]))
          IN  /\ conns.state[c] = "open" => conns.objects[conns.llm_client[c]] = own
              /\ conns.state[c] = "closed" =>
                    conns.objects[conns.llm_client[c]] = Cleared(own)

\* two connections are open at once and have received different call ids
C30_Witness ==
    /\ \A c \in Conns : conns.state[c] = "open" /\ conns.received[c] # <<>>
    /\ conns.objects[conns.llm_client[1]].call_id = "call_1"
    /\ conns.objects[conns.llm_client[2]].call_id = "call_2"
    /\ conns.objects[conns.llm_client[2]].metadata.user_name = "Ada"
    /\ ~conns.objects[conns.llm_client[1]].metadata.present

\* the places of the filler fragment among the fragments generator g yielded
Fillers(g) == {i \in 1..Len(g.yielded) : g.yielded[i].content = "filler"}

\* the first stream of generator g ran to its end
FirstStreamOver(g) ==
    \/ g.pc \in {"tool", "toolwait", "create2", "stream2"}
    \/ g.pc = "done" /\ ~Handled(g)

\* C31: a generation cycle yields at most one filler fragment; once its first
\* stream is over it has yielded one exactly if tool calls were accumulated;
\* the filler follows every text fragment of the first stream, and no tool
\* call is parsed, executed or failed before it.
C31_FillerIffTools ==
    \A f \in FrameIds :
        LET g == gen[f]
        IN  /\ Cardinality(Fillers(g)) <= 1
            /\ FirstStreamOver(g) => (Fillers(g) # {} <=> g.tcs # <<>>)
            /\ Fillers(g) # {} => g.tcs # <<>>
            /\ \A i \in Fillers(g) :
                  /\ i = g.current_content + 1
                  /\ \A j \in 1..(i - 1) : g.yielded[j] = [content |-> "text", complete |-> FALSE]
            /\ (g.invoked # <<>> \/ g.results # <<>> \/ g.k > 1) => Fillers(g) # {}

\* text, then tool calls: the filler came third and a tool has returned
C31_Witness ==
    /\ gen[1].current_content = 1
    /\ Fillers(gen[1]) = {2}
    /\ Len(gen[1].results) = 1
    /\ gen[1].results[1].content = "ok"
    /\ gen[1].pc = "done"

\* generator g has made its second model call
SecondCallMade(g) ==
    g.pc \in {"create2", "stream2"} \/ (g.pc \in Finished /\ g.final.messages # <<>>)

\* C32: the second model call gets the first call's messages, then one
\* assistant message with the text so far and the tool calls, then one tool
\* message per tool call in the order of the tool calls, and no tools; the
\* text of its stream is yielded in fragments that are not complete, and the
\* complete fragment comes last.
C32_SecondCall ==
    \A f \in FrameIds :
        LET g == gen[f]
            m == g.final.messages
            p == Len(g.prompt)
        IN  SecondCallMade(g) =>
               /\ g.prompt # <<>>
               /\ SubSeq(m, 1, p) = g.prompt
               /\ Len(m) = p + 1 + Len(g.tcs)
               /\ m[p + 1].role = "assistant"
               /\ m[p + 1].content = g.current_content
               /\ m[p + 1].tool_calls = g.tcs
               /\ \A k \in 1..Len(g.tcs) :
                     /\ m[p + 1 + k].role = "tool"
                     /\ m[p + 1 + k].tool_call_id = g.tcs[k].id
               /\ ~g.final.tools
               /\ (g.pc = "done" /\ ~Handled(g)) =>
                     /\ g.yielded[Len(g.yielded)] = [content |-> "", complete |-> TRUE]
                     /\ \A i \in 1..(Len(g.yielded) - 1) : ~g.yielded[i].complete
                     /\ \A i \in (Len(g.yielded) - g.n)..(Len(g.yielded) - 1) :
                           g.yielded[i].content = "text"

\* frame f has been answered: a complete frame sent for it is on the wire
Answered(f) ==
    /\ msg[f] = "done"
    /\ \E i \in 1..Len(wire) : wire[i].type = "response" /\ wire[i].by = f /\ wire[i].complete

\* C33: every call_details frame and every request received is answered, the
\* greeting sent and the generation cycle run to its complete frame, also when
\* the refresh that set_metadata started is never answered or fails.
C33_RefreshNeverDelays ==
    \A f \in FrameIds : (msg[f] = "new") ~> Answered(f)

\* the greeting was sent and a generation cycle ended while the refresh was
\* still in its GET
C33_Witness ==
    /\ Len(frames) = 2
    /\ frames[1].kind = "call_details"
    /\ Answered(1) /\ Answered(2)
    /\ gen[2].pc = "done"
    /\ session.refresh = <<"pending">>

\* C34: get_time_based_greeting returns the morning greeting for the hours 5
\* to 11, the afternoon greeting for 12 to 16, the evening greeting for 17 to
\* 21 and the late-night greeting for 22, 23 and 0 to 4, one greeting for
\* each hour.
C34_HourBuckets ==
    (tool.name = <<"get_time_based_greeting">> /\ tool.pc = "returned") =>
        LET hour == tool.now % 24
        IN  /\ hour \in 5..11 => tool.result = <<"Good morning">>
            /\ hour \in 12..16 => tool.result = <<"Good afternoon">>
            /\ hour \in 17..21 => tool.result = <<"Good evening">>
            /\ hour \in {22, 23} \cup 0..4 => tool.result = <<"Happy late night">>
            /\ Len(tool.result) = 1

\* the greeting of noon on the second day is the afternoon's
C34_Witness ==
    /\ tool.name = <<"get_time_based_greeting">>
    /\ tool.pc = "returned"
    /\ tool.now = 36
    /\ tool.result = <<"Good afternoon">>

\* teardown is past the step that cancels the tasks in active_tasks
PastCancel == mainPc \in {"td_gather", "td_cleanup"} \cup InCleanup \cup AfterCleanup

\* C35: once teardown has passed the step that cancels the tasks in
\* active_tasks, no handle_response_required task is created and no frame is
\* put on the wire, whatever handle_message tasks the receive loop had
\* created and not yet run when it entered the finally block.
C35_QuietAfterCancel ==
    [][PastCancel =>
          /\ wire' = wire
          /\ \A f \in FrameIds : gen[f].pc = "none" => gen'[f].pc = "none"]_vars

\* the finally block has cancelled the heartbeat and awaits it while the
\* handle_message task of a request has not run
C35_Witness ==
    /\ mainPc = "td_hb_wait"
    /\ log = <<"cancel_heartbeat">>
    /\ \E f \in FrameIds :
          /\ InReady(M(f)) /\ msg[f] = "new"
          /\ frames[f].kind \in GenerationKinds
          /\ gen[f].pc = "none"

\* the filler fragment of the cycle of frame f is on the wire
FillerSent(f) ==
    \E i \in 1..Len(wire) :
        wire[i].type = "response" /\ wire[i].by = f /\ wire[i].content = "filler"

\* the tool loop of the cycle of frame f has begun on a tool call
ToolsBegun(f) ==
    gen[f].invoked # <<>> \/ gen[f].results # <<>> \/
    \E i \in 1..Len(gen[f].faults) : gen[f].faults[i] = "tool"

\* C36: a cycle begins on its tool calls only if its filler fragment was sent
\* (a cycle abandoned at its filler has run none), and a cycle whose filler
\* was sent is not abandoned while one of its tool calls is still to run.
C36_ToolsBehindFiller ==
    \A f \in FrameIds :
        /\ ToolsBegun(f) => FillerSent(f)
        /\ (gen[f].pc = "abandoned" /\ ~FillerSent(f)) => ~ToolsBegun(f)
        /\ (gen[f].pc = "abandoned" /\ FillerSent(f)) => gen[f].k > Len(gen[f].tcs)

\* C37: a cycle is abandoned only when a request with a strictly greater
\* response id has started: while every other request that has started
\* carries an equal or lower id, the cycle is not abandoned.
C37_OnlyGreaterAbandons ==
    \A f \in FrameIds :
        gen[f].pc = "abandoned" =>
            \E later \in FrameIds :
                /\ later # f /\ IsRequest(later)
                /\ gen[later].pc \notin {"none", "new"}
                /\ frames[later].rid > gen[f].rid

\* a request with an id that is not greater arrived while the cycle of the
\* first was in flight: both cycles ran to their complete frame and a frame
\* of the second lies between two frames of the first
C37_Witness ==
    /\ Len(frames) = 2 /\ IsRequest(1) /\ IsRequest(2)
    /\ frames[2].rid <= frames[1].rid
    /\ gen[1].pc = "done" /\ gen[2].pc = "done"
    /\ \E i, j, k \in 1..Len(wire) :
          /\ i < j /\ j < k
          /\ wire[i].type = "response" /\ wire[i].by = 1
          /\ wire[j].type = "response" /\ wire[j].by = 2
          /\ wire[k].type = "response" /\ wire[k].by = 1

\* the task of frame f ends in this step on a request that cannot be built
\* for want of a transcript
FailsUnbuilt(f) ==
    /\ gen[f].pc = "new" /\ gen'[f].pc = "failed"
    /\ frames[f].rid # NoId /\ ~frames[f].transcript

\* C38: a request frame with a response id and no transcript makes its id the
\* latest response id and starts no generation and sends no frame; and a
\* cycle that yields a fragment while its id is below the latest one is
\* abandoned without sending it.
C38_UnbuiltStillSupersedes ==
    [][\A f \in FrameIds :
          /\ FailsUnbuilt(f) =>
                /\ response_id' = frames[f].rid
                /\ gen'[f].rid = NoId /\ gen'[f].prompt = <<>>
                /\ wire' = wire
          /\ (/\ Len(gen'[f].yielded) > Len(gen[f].yielded)
              /\ gen'[f].rid < response_id') =>
                /\ gen'[f].pc = "abandoned"
                /\ wire' = wire]_vars

\* the cycle of request 1 was abandoned although the only later request, with
\* a greater id, had no transcript and started no generation
C38_Witness ==
    /\ Len(frames) = 2 /\ IsRequest(1) /\ IsRequest(2)
    /\ ~frames[2].transcript /\ frames[2].rid > frames[1].rid
    /\ gen[2].pc = "failed" /\ gen[2].rid = NoId
    /\ gen[1].pc = "abandoned"

\* the fetch that reply r answered has ended the polling: it found a summary,
\* or an error status, or it raised
Stops(r) == r.t # "http" \/ r.status # 200 \/ r.summary

\* C39: cleanup makes at most max_retries fetches and at most one POST; every
\* fetch before the last one returned status 200 without a summary; after a
\* fetch that returned a summary or an error status no further fetch is made
\* or awaited, and after an error status no POST is made; and cleanup, once
\* entered, comes to its end.
C39_BoundedPolling ==
    /\ [](/\ cl.fetches <= MaxRetries
          /\ Len(cl.posts) <= 1
          /\ cl.fetches = Len(cl.replies) + (IF mainPc = "cl_get" THEN 1 ELSE 0)
          /\ \A i \in 1..Len(cl.replies) :
                /\ i < Len(cl.replies) => ~Stops(cl.replies[i])
                /\ Stops(cl.replies[i]) => mainPc \notin {"cl_get", "cl_sleep"}
                /\ (cl.replies[i].t = "http" /\ cl.replies[i].status # 200)
                      => cl.posts = <<>> /\ mainPc # "cl_post")
    /\ (mainPc \in {"td_cleanup"} \cup InCleanup) ~> (mainPc \in AfterCleanup)

\* cleanup ended after a second fetch that returned an error status: two
\* fetches, no POST
C39_Witness ==
    /\ mainPc = "td_close"
    /\ cl.fetches = 2
    /\ Len(cl.replies) = 2
    /\ cl.replies[2].t = "http" /\ cl.replies[2].status = 500
    /\ cl.posts = <<>>

\* C40: from the finally block of cleanup on, whatever the path that led to it,
\* message_history is empty and metadata and call_id are unset.
C40_ClearedOnEveryPath ==
    (mainPc \in {"cl_close"} \cup AfterCleanup) =>
        /\ session.message_history = <<>>
        /\ session.metadata = NoMetadata
        /\ session.call_id = ""

\* cleanup returned after its fetch raised, on a session that had a call id,
\* metadata and a greeting in its history
C40_Witness ==
    /\ mainPc = "td_close"
    /\ cl.call_id = "call_1" /\ cl.eligible
    /\ Len(cl.replies) = 1 /\ cl.replies[1].t = "error"
    /\ Len(wire) = 2 /\ wire[2].content # "hm_error"
    /\ session.message_history = <<>>
    /\ session.metadata = NoMetadata
    /\ session.call_id = ""

====
